---------------------------- MODULE Spec2Model ----------------------------
(***************************************************************************)
(* Model of the MachineMind Telegram command center: the dispatcher        *)
(* handleCommand of src/src/lib/commands.ts (the later of the two          *)
(* snapshots the file holds, lines 900-2903), the input normaliser         *)
(* extractProjectName / cleanArgs, the validators, and the adapters the    *)
(* handlers call (telegram.ts, vercel.ts, github, advanced-deploy).        *)
(*                                                                         *)
(* Strings are sequences of one-character strings, so that the regular     *)
(* expressions and the split / toLowerCase calls of the source are         *)
(* computed character by character.                                        *)
(***************************************************************************)
EXTENDS Integers, Sequences, FiniteSets, TLC

VARIABLES
    env,      \* process.env: the configuration read by the code
    pc,       \* position of the handleCommand invocation in flight
    chatId,   \* handleCommand parameter
    userId,   \* handleCommand parameter
    text,     \* handleCommand parameter
    command,  \* local of handleCommand: the parsed command token
    args,     \* local of handleCommand: the cleaned argument list
    local,    \* locals of the running handler
    calls,    \* every adapter call the invocation has made, in order
    ex,       \* the state of the harness of a function (SpecExtract and others)
    http      \* the webhook request in flight and its response (SpecWebhook)

vars == <<env, pc, chatId, userId, text, command, args, local, calls, ex, http>>

-----------------------------------------------------------------------------
(* Characters and strings *)

LowerSeq == <<"a","b","c","d","e","f","g","h","i","j","k","l","m",
              "n","o","p","q","r","s","t","u","v","w","x","y","z">>
UpperSeq == <<"A","B","C","D","E","F","G","H","I","J","K","L","M",
              "N","O","P","Q","R","S","T","U","V","W","X","Y","Z">>
Lower == {LowerSeq[i] : i \in 1..26}
Upper == {UpperSeq[i] : i \in 1..26}
Digit == {"0","1","2","3","4","5","6","7","8","9"}
White == {" "}

\* String.prototype.toLowerCase, one character
LowerChar(c) ==
    IF c \in Upper THEN LowerSeq[CHOOSE i \in 1..26 : UpperSeq[i] = c] ELSE c

\* String.prototype.toLowerCase
toLowerCase(s) == [i \in 1..Len(s) |-> LowerChar(s[i])]

\* Concatenation of a sequence of strings (template literals, Array.join(""))
RECURSIVE Cat(_)
Cat(ss) == IF ss = <<>> THEN <<>> ELSE Head(ss) \o Cat(Tail(ss))

Min(S) == CHOOSE m \in S : \A n \in S : m <= n
Max(S) == CHOOSE m \in S : \A n \in S : n <= m

\* the literal lit occurs in s at position i; the regular expressions that
\* use it carry the i flag, so the comparison ignores case
LitAt(s, i, lit) ==
    /\ i >= 1
    /\ i + Len(lit) - 1 <= Len(s)
    /\ \A k \in 1..Len(lit) : LowerChar(s[i + k - 1]) = lit[k]

\* every character of s[a..b] is in class C (true of an empty range)
AllIn(s, a, b, C) == \A k \in a..b : s[k] \in C

-----------------------------------------------------------------------------
(* extractProjectName, commands.ts 974-991 *)

\* [a-z0-9] and [a-z0-9-] under the i flag
AlnumI == Lower \cup Upper \cup Digit
NameI == AlnumI \cup {"-"}

L_https == <<"h","t","t","p","s",":","/","/">>
L_http == <<"h","t","t","p",":","/","/">>
L_vercelapp == <<".","v","e","r","c","e","l",".","a","p","p">>
L_githubcom == <<"g","i","t","h","u","b",".","c","o","m","/">>
L_git == <<".","g","i","t">>

\* {8,} of the deployment-hash group
HashMin == 8

\* https?:\/\/ at position i: the position after it, or 0
SchemeEnd(s, i) ==
    IF LitAt(s, i, L_https) THEN i + Len(L_https)
    ELSE IF LitAt(s, i, L_http) THEN i + Len(L_http)
    ELSE 0

\* (?:-[a-z0-9-]+)?\.vercel\.app matches at position q
TeamTail(s, q) ==
    \/ LitAt(s, q, L_vercelapp)
    \/ /\ q <= Len(s)
       /\ s[q] = "-"
       /\ \E m \in 1..Len(s) :
            /\ q + m <= Len(s)
            /\ AllIn(s, q + 1, q + m, NameI)
            /\ LitAt(s, q + m + 1, L_vercelapp)

\* (?:-[a-z0-9]{8,})?(?:-[a-z0-9-]+)?\.vercel\.app matches at position p
HashTail(s, p) ==
    \/ TeamTail(s, p)
    \/ /\ p <= Len(s)
       /\ s[p] = "-"
       /\ \E n \in HashMin..Len(s) :
            /\ p + n <= Len(s)
            /\ AllIn(s, p + 1, p + n, AlnumI)
            /\ TeamTail(s, p + n + 1)

\* the lengths k of group 1, ([a-z0-9-]+?), with which the whole expression
\* matches when it starts at position i
VercelGroupLens(s, i) ==
    LET j == SchemeEnd(s, i)
    IN  IF j = 0 THEN {}
        ELSE {k \in 1..Len(s) :
                /\ j + k - 1 <= Len(s)
                /\ AllIn(s, j, j + k - 1, NameI)
                /\ HashTail(s, j + k)}

VercelStarts(s) == {i \in 1..Len(s) : VercelGroupLens(s, i) # {}}

\* input.match(vercel expression)[1]: the leftmost start, and from it the
\* shortest group 1 (the group is lazy) that lets the rest match
VercelGroup(s) ==
    LET i == Min(VercelStarts(s))
        j == SchemeEnd(s, i)
        k == Min(VercelGroupLens(s, i))
    IN  SubSeq(s, j, j + k - 1)

\* /https?:\/\/github\.com\/[^/]+\/([^/\s]+)/i starting at position i: the
\* position where group 1 starts, or 0.  [^/]+ is followed by a slash, so the
\* owner is the run up to the next slash.
GithubGroupStart(s, i) ==
    LET j == SchemeEnd(s, i)
        o == IF j = 0 THEN 0 ELSE j + Len(L_githubcom)
        slashes == {q \in o + 1..Len(s) : s[q] = "/"}
    IN  IF j = 0 \/ ~LitAt(s, j, L_githubcom) THEN 0
        ELSE IF o > Len(s) \/ s[o] = "/" \/ slashes = {} THEN 0
        ELSE LET q == Min(slashes)
             IN  IF q + 1 <= Len(s) /\ s[q + 1] \notin ({"/"} \cup White)
                 THEN q + 1 ELSE 0

GithubStarts(s) == {i \in 1..Len(s) : GithubGroupStart(s, i) # 0}

\* GithubGroup with group 1 written ([^\s]+): a slash no longer ends it
GithubGroup_slashInGroup(s) ==
    LET g == GithubGroupStart(s, Min(GithubStarts(s)))
        stops == {q \in g..Len(s) : s[q] \in White}
        e == IF stops = {} THEN Len(s) ELSE Min(stops) - 1
    IN  SubSeq(s, g, e)

\* input.match(github expression)[1]: the greedy run of [^/\s] characters
GithubGroup(s) ==
    LET g == GithubGroupStart(s, Min(GithubStarts(s)))
        stops == {q \in g..Len(s) : s[q] \in ({"/"} \cup White)}
        e == IF stops = {} THEN Len(s) ELSE Min(stops) - 1
    IN  SubSeq(s, g, e)

\* .replace(/\.git$/, ""): this expression carries no i flag
StripGit(r) ==
    IF Len(r) >= Len(L_git) /\ SubSeq(r, Len(r) - Len(L_git) + 1, Len(r)) = L_git
    THEN SubSeq(r, 1, Len(r) - Len(L_git))
    ELSE r

extractProjectName(input) ==
    IF VercelStarts(input) # {} THEN VercelGroup(input)
    ELSE IF GithubStarts(input) # {} THEN StripGit(GithubGroup(input))
    ELSE input

\* cleanArgs, commands.ts 996-998
cleanArgs(as) == [i \in 1..Len(as) |-> extractProjectName(as[i])]


-----------------------------------------------------------------------------
(* Harness for extractProjectName: inputs drawn from bounded sets *)

W_app == <<"a","p","p">>
W_simmer_down == <<"s","i","m","m","e","r","-","d","o","w","n">>
W_project_name == <<"p","r","o","j","e","c","t","-","n","a","m","e">>
W_my_repo == <<"m","y","-","r","e","p","o">>
W_hash == <<"a","b","1","2","c","d","3","4">>
W_team == <<"t","e","a","m">>
W_Owner == <<"O","w","n","e","r">>
W_Repo_1 == <<"R","e","p","o","_","1">>
W_simmer_under == <<"s","i","m","m","e","r","_","d","o","w","n">>
W_example_url == <<"h","t","t","p","s",":","/","/","e","x","a","m","p","l","e",".","c","o","m","/","a">>
W_Bad_Name == <<"B","a","d","_","N","a","m","e">>

\* the longest free input is a sequence of MaxFrags fragments
MaxFrags == 4

Fragments == {L_https, L_https \o L_githubcom, L_vercelapp, L_git,
              <<"-">>, <<"/">>, W_app, W_hash}

RECURSIVE FragSeqs(_)
FragSeqs(n) ==
    IF n = 0 THEN {<<>>}
    ELSE LET shorter == FragSeqs(n - 1)
         IN  shorter \cup {f \o t : f \in Fragments, t \in shorter}

Schemes == {L_https, L_http, <<"H","T","T","P","S",":","/","/">>}
ProjectNames == {W_app, W_simmer_down, W_project_name}
RepoNames == {W_my_repo, W_Repo_1, W_app}

\* https://<project>.vercel.app and https://<project>-<hash>-<team>.vercel.app
VercelInputs ==
    {[kind |-> "vercel", name |-> p,
      input |-> Cat(<<sc, p, infix, L_vercelapp>>)] :
        sc \in Schemes, p \in ProjectNames,
        infix \in {<<>>, Cat(<<<<"-">>, W_hash, <<"-">>, W_team>>)}}

\* https://github.com/<owner>/<repo>[.git]
GithubInputs ==
    {[kind |-> "github", name |-> r,
      input |-> Cat(<<sc, L_githubcom, W_Owner, <<"/">>, r, git>>)] :
        sc \in Schemes, r \in RepoNames, git \in {<<>>, L_git}}

\* tokens that match neither expression
PlainInputs ==
    {[kind |-> "plain", name |-> t, input |-> t] :
        t \in {W_my_repo, W_simmer_under, W_example_url, W_Bad_Name, <<>>,
               L_vercelapp, L_githubcom \o W_Owner \o <<"/">> \o W_app}}

\* a URL whose path holds another URL
NestedInputs ==
    {[kind |-> "nested", name |-> <<>>, input |-> outer \o inner] :
        outer \in {Cat(<<L_https, L_githubcom, W_Owner, <<"/">>>>),
                   Cat(<<L_https, L_githubcom, W_Owner, <<"/">>, W_app, <<"/">>>>),
                   W_example_url \o <<"/">>},
        inner \in {Cat(<<L_https, L_githubcom, W_Owner, <<"/">>, W_my_repo>>),
                   Cat(<<L_https, W_simmer_down, L_vercelapp>>)}}

FreeInputs ==
    {[kind |-> "free", name |-> <<>>, input |-> t] : t \in FragSeqs(MaxFrags)}

ExtractInputs ==
    VercelInputs \cup GithubInputs \cup PlainInputs \cup NestedInputs \cup FreeInputs

ExIdle == [stage |-> "off", kind |-> "free", name |-> <<>>, input |-> <<>>,
           out1 |-> <<>>, out2 |-> <<>>, ok |-> FALSE]

\* no webhook request is in flight
HttpIdle == [stage |-> "off", secret |-> <<>>, header |-> <<>>, body |-> <<>>,
             response |-> <<>>, logged |-> FALSE]

mainvars == <<env, pc, chatId, userId, text, command, args, local, calls, http>>

\* an input is chosen; the dispatcher is at rest while the harness runs
ExtractInit ==
    /\ \E x \in ExtractInputs :
          ex = [stage |-> "input", kind |-> x.kind, name |-> x.name,
                input |-> x.input, out1 |-> <<>>, out2 |-> <<>>, ok |-> FALSE]
    /\ env = [AUTHORIZED_TELEGRAM_IDS |-> <<>>, TELEGRAM_BOT_TOKEN |-> FALSE,
              VERCEL_API_TOKEN |-> FALSE, GITHUB_TOKEN |-> FALSE]
    /\ pc = "off"
    /\ chatId = 0
    /\ userId = 0
    /\ text = <<>>
    /\ command = <<>>
    /\ args = <<>>
    /\ local = <<>>
    /\ calls = <<>>
    /\ http = HttpIdle

\* extractProjectName(input)
ExtractOnce ==
    /\ ex.stage = "input"
    /\ ex' = [ex EXCEPT !.stage = "once", !.out1 = extractProjectName(ex.input)]
    /\ UNCHANGED mainvars

\* extractProjectName(extractProjectName(input))
ExtractTwice ==
    /\ ex.stage = "once"
    /\ ex' = [ex EXCEPT !.stage = "twice", !.out2 = extractProjectName(ex.out1)]
    /\ UNCHANGED mainvars

ExtractNext == ExtractOnce \/ ExtractTwice

SpecExtract == ExtractInit /\ [][ExtractNext]_vars

-----------------------------------------------------------------------------
(* Validators, commands.ts 2833-2847 *)

\* {0,99} of SAFE_PROJECT_NAME
ProjectTailMax == 99
\* {0,49} of SAFE_COMPONENT_NAME
ComponentTailMax == 49

\* SAFE_PROJECT_NAME = /^[a-z0-9][a-z0-9-]{0,99}$/i
validateProjectName(name) ==
    /\ Len(name) >= 1
    /\ Len(name) <= 1 + ProjectTailMax
    /\ name[1] \in AlnumI
    /\ AllIn(name, 2, Len(name), NameI)

\* validateComponentName with the i flag that SAFE_PROJECT_NAME carries
validateComponentName_ignoreCase(name) ==
    /\ Len(name) >= 1
    /\ Len(name) <= 1 + ComponentTailMax
    /\ name[1] \in Lower \cup Upper
    /\ AllIn(name, 2, Len(name), AlnumI)

\* SAFE_COMPONENT_NAME = /^[A-Z][A-Za-z0-9]{0,49}$/
validateComponentName(name) ==
    /\ Len(name) >= 1
    /\ Len(name) <= 1 + ComponentTailMax
    /\ name[1] \in Upper
    /\ AllIn(name, 2, Len(name), AlnumI)

-----------------------------------------------------------------------------
(* Harness for the validators: names drawn from bounded sets *)

W_HeroSection == <<"H","e","r","o","S","e","c","t","i","o","n">>
W_heroSection == <<"h","e","r","o","S","e","c","t","i","o","n">>
W_Hero_Section == <<"H","e","r","o"," ","S","e","c","t","i","o","n">>
W_Hero_dash_Section == <<"H","e","r","o","-","S","e","c","t","i","o","n">>
W_project_123 == <<"p","r","o","j","e","c","t","-","1","2","3">>

\* the longest name is a first character, MaxFill fillers and a last character
MaxFill == 101

Repeat(c, n) == [i \in 1..n |-> c]

\* names by shape: first character, a run of one filler, last character
ShapedNames ==
    {first \o Repeat(fill, n) \o last :
        first \in {<<>>, <<"a">>, <<"A">>, <<"7">>, <<"-">>, <<"_">>},
        fill \in {"a", "Z", "0", "-"},
        n \in 0..MaxFill,
        last \in {<<>>, <<"b">>, <<"B">>, <<" ">>, <<"_">>}}

NamedNames ==
    {W_simmer_down, <<"a">>, W_project_123, W_Bad_Name, W_simmer_under,
     W_HeroSection, W_heroSection, W_Hero_Section, W_Hero_dash_Section, <<>>}

ValidateInputs == ShapedNames \cup NamedNames

\* a name is chosen; the dispatcher is at rest while the harness runs
ValidateInit ==
    /\ \E x \in ValidateInputs :
          ex = [stage |-> "name", kind |-> "name", name |-> <<>>,
                input |-> x, out1 |-> <<>>, out2 |-> <<>>, ok |-> FALSE]
    /\ env = [AUTHORIZED_TELEGRAM_IDS |-> <<>>, TELEGRAM_BOT_TOKEN |-> FALSE,
              VERCEL_API_TOKEN |-> FALSE, GITHUB_TOKEN |-> FALSE]
    /\ pc = "off"
    /\ chatId = 0
    /\ userId = 0
    /\ text = <<>>
    /\ command = <<>>
    /\ args = <<>>
    /\ local = <<>>
    /\ calls = <<>>
    /\ http = HttpIdle

\* validateProjectName(name)
ValidateProject ==
    /\ ex.stage = "name"
    /\ ex' = [ex EXCEPT !.stage = "project", !.ok = validateProjectName(ex.input)]
    /\ UNCHANGED mainvars

\* validateComponentName(name)
ValidateComponent ==
    /\ ex.stage = "name"
    /\ ex' = [ex EXCEPT !.stage = "component", !.ok = validateComponentName(ex.input)]
    /\ UNCHANGED mainvars

ValidateNext == ValidateProject \/ ValidateComponent

SpecValidate == ValidateInit /\ [][ValidateNext]_vars

-----------------------------------------------------------------------------
(* Text parsing used by handleCommand *)

\* String.prototype.split(/\s+/)
RECURSIVE SplitWs(_)
SplitWs(s) ==
    LET ws == {i \in 1..Len(s) : s[i] \in White}
    IN  IF ws = {} THEN <<s>>
        ELSE LET i == Min(ws)
                 rest == {j \in i..Len(s) : s[j] \notin White}
                 j == IF rest = {} THEN Len(s) + 1 ELSE Min(rest)
             IN  <<SubSeq(s, 1, i - 1)>> \o SplitWs(SubSeq(s, j, Len(s)))

\* String.prototype.split(","): one entry per comma, empty entries kept
RECURSIVE SplitComma(_)
SplitComma(s) ==
    LET cs == {i \in 1..Len(s) : s[i] = ","}
    IN  IF cs = {} THEN <<s>>
        ELSE <<SubSeq(s, 1, Min(cs) - 1)>> \o
             SplitComma(SubSeq(s, Min(cs) + 1, Len(s)))

\* s.split("@")[0]
BeforeAt(s) ==
    LET at == {i \in 1..Len(s) : s[i] = "@"}
    IN  IF at = {} THEN s ELSE SubSeq(s, 1, Min(at) - 1)

DigitSeq == <<"0","1","2","3","4","5","6","7","8","9">>
DigitVal(c) == (CHOOSE i \in 1..10 : DigitSeq[i] = c) - 1

RECURSIVE Decimal(_)
Decimal(s) ==
    IF s = <<>> THEN 0
    ELSE 10 * Decimal(SubSeq(s, 1, Len(s) - 1)) + DigitVal(s[Len(s)])

\* Number(entry) for the entries met here: the empty string is 0, a run of
\* decimal digits is its value, anything else is NaN
Number(s) ==
    IF AllIn(s, 1, Len(s), Digit) THEN [nan |-> FALSE, val |-> Decimal(s)]
    ELSE [nan |-> TRUE, val |-> 0]

\* Boolean(n) of a number: false for 0 and NaN
Truthy(n) == ~n.nan /\ n.val # 0

\* the value process.env gives for a variable that is not set
Undefined == <<"undefined">>

\* process.env.AUTHORIZED_TELEGRAM_IDS?.split(",").map(Number).filter(Boolean) || []
AuthorizedUsers(e) ==
    IF e.AUTHORIZED_TELEGRAM_IDS = Undefined THEN {}
    ELSE LET entries == SplitComma(e.AUTHORIZED_TELEGRAM_IDS)
         IN  {Number(entries[i]).val :
                i \in {k \in 1..Len(entries) : Truthy(Number(entries[k]))}}

\* text.trim().startsWith("/"): leading whitespace is skipped
StartsWithSlash_trimmed(t) ==
    \E i \in 1..Len(t) : t[i] = "/" /\ \A k \in 1..(i - 1) : t[k] \in White

\* text.startsWith("/")
StartsWithSlash(t) == Len(t) >= 1 /\ t[1] = "/"

\* text.slice(1).split(/\s+/)
Parts(t) == SplitWs(SubSeq(t, 2, Len(t)))

\* the command token without .toLowerCase()
CommandOf_caseKept(t) == BeforeAt(Parts(t)[1])

\* parts[0].toLowerCase().split("@")[0]
CommandOf(t) == BeforeAt(toLowerCase(Parts(t)[1]))

\* cleanArgs(parts.slice(1))
ArgsOf(t) == cleanArgs(Tail(Parts(t)))

-----------------------------------------------------------------------------
(* The command registry, commands.ts 1002-2830 *)

N_start == <<"s","t","a","r","t">>
N_help == <<"h","e","l","p">>
N_ping == <<"p","i","n","g">>
N_research == <<"r","e","s","e","a","r","c","h">>
N_build == <<"b","u","i","l","d">>
N_repos == <<"r","e","p","o","s">>
N_new == <<"n","e","w">>
N_genesis == <<"g","e","n","e","s","i","s">>
N_audit == <<"a","u","d","i","t">>
N_demo == <<"d","e","m","o">>
N_component == <<"c","o","m","p","o","n","e","n","t">>
N_sofia == <<"s","o","f","i","a">>
N_sites == <<"s","i","t","e","s">>
N_status == <<"s","t","a","t","u","s">>
N_deploy == <<"d","e","p","l","o","y">>
N_logs == <<"l","o","g","s">>
N_errors == <<"e","r","r","o","r","s">>
N_domains == <<"d","o","m","a","i","n","s">>
N_env == <<"e","n","v">>
N_rollback == <<"r","o","l","l","b","a","c","k">>
N_cancel == <<"c","a","n","c","e","l">>
N_fix == <<"f","i","x">>
N_review == <<"r","e","v","i","e","w">>
N_optimize == <<"o","p","t","i","m","i","z","e">>
N_chat == <<"c","h","a","t">>
N_roi == <<"r","o","i">>
N_pitch == <<"p","i","t","c","h">>
N_proposal == <<"p","r","o","p","o","s","a","l">>
N_competitor == <<"c","o","m","p","e","t","i","t","o","r">>
N_speed == <<"s","p","e","e","d">>
N_seo == <<"s","e","o">>
N_uptime == <<"u","p","t","i","m","e">>
N_copy == <<"c","o","p","y">>
N_translate == <<"t","r","a","n","s","l","a","t","e">>
N_image == <<"i","m","a","g","e">>
N_clone == <<"c","l","o","n","e">>
N_env_set == <<"e","n","v","-","s","e","t">>
N_domain_add == <<"d","o","m","a","i","n","-","a","d","d">>
N_preview == <<"p","r","e","v","i","e","w">>
N_constructor == <<"c","o","n","s","t","r","u","c","t","o","r">>
N_proto == <<"_","_","p","r","o","t","o","_","_">>
N_frobnicate == <<"f","r","o","b","n","i","c","a","t","e">>

\* the own keys of the object literal `commands`
RegisteredNames ==
    {N_start, N_help, N_ping, N_research, N_build, N_repos, N_new, N_genesis,
     N_audit, N_demo, N_component, N_sofia, N_sites, N_status, N_deploy,
     N_logs, N_errors, N_domains, N_env, N_rollback, N_cancel, N_fix,
     N_review, N_optimize, N_chat, N_roi, N_pitch, N_proposal, N_competitor,
     N_speed, N_seo, N_uptime, N_copy, N_translate, N_image, N_clone,
     N_env_set, N_domain_add, N_preview}

\* commands[command]: `commands` is an object literal, so a key it does not
\* own is looked up on Object.prototype.  Of the properties of
\* Object.prototype only the all-lowercase names can equal a lowercased
\* token: constructor (the function Object) and __proto__ (Object.prototype
\* itself, an object that is not callable).
Lookup(c) ==
    IF c \in RegisteredNames THEN "handler"
    ELSE IF c = N_constructor THEN "Object"
    ELSE IF c = N_proto THEN "Object.prototype"
    ELSE "undefined"

-----------------------------------------------------------------------------
(* Messages, errors and the record of adapter calls *)

Msg(t, p) == [t |-> t, p |-> p]
NoText == Msg("", <<>>)

\* one adapter call: the operation, the conversation a message goes to, the
\* message, and the other arguments
Call(op, to, m, a) == [op |-> op, to |-> to, text |-> m, a |-> a]

E_None == <<>>
E_TelegramToken == <<"TELEGRAM_BOT_TOKEN not set">>
E_FetchFailed == <<"fetch failed">>
E_NotAFunction == <<"handler is not a function">>
E_VercelApi == <<"Vercel API error">>

E_VercelToken == <<"VERCEL_API_TOKEN not set">>

\* null, for a project and for a deployment
NoProject == [id |-> <<>>, name |-> <<>>]
NoDeployment == [id |-> <<>>, state |-> "", url |-> <<>>]

\* the locals of a handler: the error caught, the project looked up, the
\* deployments listed, the deployment picked or triggered, the repositories
\* listed, the boolean or success flag an adapter returned, and the length
\* of the list of logs, domains or variables an adapter returned
NoLocals == [error |-> E_None, project |-> NoProject, deployments |-> <<>>,
             target |-> NoDeployment, repos |-> <<>>, ok |-> FALSE, items |-> 0]

Frame == UNCHANGED <<env, chatId, userId, text, command, args, ex, http>>

-----------------------------------------------------------------------------
(* Chat transport, telegram.ts 3-33 *)

\* await sendMessage(to, m): throws when the token is not set or when fetch
\* rejects; otherwise returns response.ok, which no caller in commands.ts
\* reads.  Control continues at `next`, or at `catch` with the error.
sendMessage(to, m, next, catch) ==
    /\ calls' = Append(calls, Call("sendMessage", to, m, <<>>))
    /\ IF ~env.TELEGRAM_BOT_TOKEN
       THEN /\ pc' = catch
            /\ local' = [local EXCEPT !.error = E_TelegramToken]
       ELSE \/ /\ pc' = next
               /\ local' = local
            \/ /\ pc' = catch
               /\ local' = [local EXCEPT !.error = E_FetchFailed]

\* await sendTyping(to): returns at once when the token is not set; throws
\* when fetch rejects
sendTyping(to, next, catch) ==
    /\ calls' = Append(calls, Call("sendTyping", to, NoText, <<>>))
    /\ IF ~env.TELEGRAM_BOT_TOKEN
       THEN /\ pc' = next
            /\ local' = local
       ELSE \/ /\ pc' = next
               /\ local' = local
            \/ /\ pc' = catch
               /\ local' = [local EXCEPT !.error = E_FetchFailed]

-----------------------------------------------------------------------------
(* Deployment platform, vercel.ts *)

\* the most deployments an upstream answer lists
MaxDeployments == 3

DeploymentStates == {"READY", "BUILDING"}

P_id == <<"prj_1">>
D_id(k) == <<"d","p","l","_", DigitSeq[k + 1], "A","b","C","d","E","f","G","h","I","j">>
D_url == <<"app-ab12cd34.vercel.app">>

\* the answers of GET /v6/deployments?projectId=..&limit=n: at most n
\* deployments, newest first
DeploymentLists(n) ==
    UNION {[1..len -> DeploymentStates] : len \in 0..(IF n < MaxDeployments THEN n ELSE MaxDeployments)}

Deployments(states) ==
    [k \in 1..Len(states) |-> [id |-> D_id(k), state |-> states[k], url |-> D_url]]

\* await getProject(name), vercel.ts 76-84: the project, or null on any
\* failure of vercelFetch (token not set, status not ok, fetch rejected)
getProject(name, next) ==
    /\ calls' = Append(calls, Call("getProject", 0, NoText, <<name>>))
    /\ \E found \in (IF env.VERCEL_API_TOKEN THEN BOOLEAN ELSE {FALSE}) :
         local' = [local EXCEPT !.project =
                     IF found THEN [id |-> P_id, name |-> name] ELSE NoProject]
    /\ pc' = next

\* await listDeployments(projectId, limit), vercel.ts 86-94: the errors of
\* vercelFetch are not caught here
listDeployments(projectId, limit, next, catch) ==
    /\ calls' = Append(calls, Call("listDeployments", 0, NoText, <<projectId>>))
    /\ IF ~env.VERCEL_API_TOKEN
       THEN /\ pc' = catch
            /\ local' = [local EXCEPT !.error = E_VercelToken]
       ELSE \/ \E states \in DeploymentLists(limit) :
                 /\ pc' = next
                 /\ local' = [local EXCEPT !.deployments = Deployments(states)]
            \/ /\ pc' = catch
               /\ local' = [local EXCEPT !.error = E_VercelApi]

\* await triggerDeployment(projectName), vercel.ts 106-133: null when the
\* project is not found, has no deployment or the POST fails; throws when
\* the project is found and listing its deployments fails
triggerDeployment(projectName, next, catch) ==
    /\ calls' = Append(calls, Call("triggerDeployment", 0, NoText, <<projectName>>))
    /\ IF ~env.VERCEL_API_TOKEN
       THEN /\ pc' = next
            /\ local' = [local EXCEPT !.target = NoDeployment]
       ELSE \/ \E r \in {NoDeployment, [id |-> D_id(1), state |-> "", url |-> D_url]} :
                 /\ pc' = next
                 /\ local' = [local EXCEPT !.target = r]
            \/ /\ pc' = catch
               /\ local' = [local EXCEPT !.error = E_VercelApi]

\* an adapter that catches every failure and returns a boolean; `token`
\* says whether its credential is set
BooleanAdapter(op, a, token, next) ==
    /\ calls' = Append(calls, Call(op, 0, NoText, a))
    /\ \E ok \in (IF token THEN BOOLEAN ELSE {FALSE}) :
         local' = [local EXCEPT !.ok = ok]
    /\ pc' = next

\* await promoteDeployment(deploymentId, projectId), vercel.ts 190-202
promoteDeployment(deploymentId, projectId, next) ==
    BooleanAdapter("promoteDeployment", <<deploymentId, projectId>>,
                   env.VERCEL_API_TOKEN, next)

\* await cancelDeployment(deploymentId), vercel.ts 204-213
cancelDeployment(deploymentId, next) ==
    BooleanAdapter("cancelDeployment", <<deploymentId>>, env.VERCEL_API_TOKEN, next)

\* the most entries a list of logs, domains or variables holds
MaxItems == 1

\* an adapter that catches every failure and returns a list, [] on failure
ListAdapter(op, a, next) ==
    /\ calls' = Append(calls, Call(op, 0, NoText, a))
    /\ \E n \in (IF env.VERCEL_API_TOKEN THEN 0..MaxItems ELSE {0}) :
         local' = [local EXCEPT !.items = n]
    /\ pc' = next

\* await getDeploymentLogs(deploymentId), vercel.ts 135-146
getDeploymentLogs(deploymentId, next) ==
    ListAdapter("getDeploymentLogs", <<deploymentId>>, next)

\* await getProjectDomains(projectId), vercel.ts 148-159
getProjectDomains(projectId, next) ==
    ListAdapter("getProjectDomains", <<projectId>>, next)

\* await getProjectEnvVars(projectId), vercel.ts 161-172
getProjectEnvVars(projectId, next) ==
    ListAdapter("getProjectEnvVars", <<projectId>>, next)

\* await getRuntimeLogs(projectId, {level, limit}), vercel.ts 174-188
getRuntimeLogs(projectId, next) ==
    ListAdapter("getRuntimeLogs", <<projectId>>, next)

-----------------------------------------------------------------------------
(* Source control, the github module (route.ts 497-648) *)

\* await triggerWorkflow(GITHUB_OWNER, BOT_REPO, workflowId, inputs)
triggerWorkflow(workflowId, inputs, next) ==
    BooleanAdapter("triggerWorkflow", <<workflowId>> \o inputs, env.GITHUB_TOKEN, next)

\* await repoExists(GITHUB_OWNER, repo)
repoExists(repo, next) ==
    BooleanAdapter("repoExists", <<repo>>, env.GITHUB_TOKEN, next)

\* the answers of listReposDetailed: the names of the owner's repositories
RepoLists == {<<>>, <<W_my_repo, W_app>>}

\* await listReposDetailed(GITHUB_OWNER): [] on any failure
listReposDetailed(next) ==
    /\ calls' = Append(calls, Call("listReposDetailed", 0, NoText, <<>>))
    /\ \E repos \in (IF env.GITHUB_TOKEN THEN RepoLists ELSE {<<>>}) :
         local' = [local EXCEPT !.repos = repos]
    /\ pc' = next

-----------------------------------------------------------------------------
(* Advanced deployment operations, unnamed/part_005 *)

\* cloneProject, setEnvVar and addDomain catch every failure and return
\* {success, error}
cloneProject(source, newName, next) ==
    BooleanAdapter("cloneProject", <<source, newName>>, env.GITHUB_TOKEN, next)

setEnvVar(projectName, key, value, next) ==
    BooleanAdapter("setEnvVar", <<projectName, key, value>>,
                   env.VERCEL_API_TOKEN, next)

addDomain(projectName, domain, next) ==
    BooleanAdapter("addDomain", <<projectName, domain>>, env.VERCEL_API_TOKEN, next)

-----------------------------------------------------------------------------
(* Inputs *)

W_Hero == <<"H","e","r","o">>
W_hello == <<"h","e","l","l","o">>
W_bot == <<"b","o","t">>
W_HELP == <<"H","E","L","P">>

\* the longest argument list of an input text
MaxArgs == 3

ArgPool == {W_app, W_Bad_Name, W_Hero}

RECURSIVE ArgLists(_)
ArgLists(n) ==
    IF n = 0 THEN {<<>>}
    ELSE LET shorter == ArgLists(n - 1)
         IN  shorter \cup {<<a>> \o t : a \in ArgPool, t \in {u \in shorter : Len(u) = n - 1}}

\* the command tokens of the input texts: the commands whose handlers are
\* modelled, in other letter case and with an @suffix, and tokens that are
\* no key of the registry
ReadingNames == {N_status, N_logs, N_errors, N_domains, N_env}

\* the other commands that require arguments
OtherNames ==
    {N_research, N_build, N_fix, N_review, N_optimize, N_chat, N_roi,
     N_pitch, N_proposal, N_competitor, N_speed, N_seo, N_uptime, N_copy,
     N_translate, N_image, N_preview}

ModelledNames ==
    {N_start, N_help, N_ping, N_genesis, N_audit, N_demo, N_component,
     N_sofia, N_deploy, N_rollback, N_cancel, N_clone, N_env_set,
     N_domain_add, N_new} \cup ReadingNames \cup OtherNames

Tokens ==
    ModelledNames \cup
    {W_HELP, N_ping \o <<"@">> \o W_bot, <<>>, N_frobnicate, N_constructor, N_proto}

\* how many arguments the handler of a token reads (args[0], args[1],
\* args.slice(2)); a token with no handler reads none
ArgsRead(tok) ==
    IF tok = N_env_set THEN 3
    ELSE IF tok \in {N_component, N_clone, N_domain_add, N_new, N_chat, N_copy} THEN 2
    ELSE IF tok \in {N_genesis, N_audit, N_demo, N_sofia, N_deploy,
                     N_rollback, N_cancel} \cup ReadingNames \cup OtherNames THEN 1
    ELSE 0

RECURSIVE JoinArgs(_)
JoinArgs(as) == IF as = <<>> THEN <<>> ELSE <<" ">> \o Head(as) \o JoinArgs(Tail(as))

\* "/" token, then up to MaxArgs arguments, one more than the handler reads
\* at most; a text that is no command; a command after a leading space
TextsOf(tok) ==
    {<<"/">> \o tok \o JoinArgs(as) :
        as \in {l \in ArgLists(MaxArgs) :
                  /\ Len(l) <= ArgsRead(tok) + 1
                  /\ tok \in ReadingNames \cup OtherNames \cup {N_new} =>
                        \A i \in 1..Len(l) : l[i] = W_app}}

\* commands whose arguments hold a URL: the raw arguments, and the name each
\* URL was built from (platform names hold no hyphen, after which the
\* optional groups of the expression could match)
U_vercel == Cat(<<L_https, W_app, L_vercelapp>>)
U_deployment == Cat(<<L_https, W_app, <<"-">>, W_hash, <<"-">>, W_team, L_vercelapp>>)
U_github == Cat(<<L_https, L_githubcom, W_Owner, <<"/">>, W_my_repo>>)

UrlCases ==
    {[token |-> N_env_set, raw |-> <<W_app, W_Hero, U_vercel>>,
      names |-> <<W_app, W_Hero, W_app>>],
     [token |-> N_speed, raw |-> <<U_github>>, names |-> <<W_my_repo>>],
     [token |-> N_deploy, raw |-> <<U_deployment>>, names |-> <<W_app>>],
     [token |-> N_domain_add, raw |-> <<U_github, U_vercel>>,
      names |-> <<W_my_repo, W_app>>]}

UrlTexts == {<<"/">> \o c.token \o JoinArgs(c.raw) : c \in UrlCases}

\* three of the sectors of /new
S_yacht == <<"y","a","c","h","t">>
S_spa == <<"s","p","a">>
S_tour == <<"t","o","u","r">>

W_Sofia == <<"S","o","f","i","a">>
W_Lounge == <<"L","o","u","n","g","e">>
W_Cafe == <<"C","a","f","é">>

\* the arguments of /new: a name and a sector, a sector in capitals, a name
\* of two words, a quoted name, a name with a character outside the class,
\* a word that is no sector, a quoted name with more after the sector
NewArgs ==
    {<<W_app, S_yacht>>,
     <<W_Cafe, <<"Y","a","c","h","t">>>>,
     <<W_Sofia, W_Lounge, S_spa>>,
     <<<<"\"">> \o W_Sofia, W_Lounge \o <<"\"">>, <<"S","P","A">>>>,
     <<W_Bad_Name, S_yacht>>,
     <<W_app, W_Hero>>,
     <<<<"'">> \o W_app \o <<"'">>, S_tour \o <<"-">> \o W_app, W_Hero>>}

NewTexts == {<<"/">> \o N_new \o JoinArgs(as) : as \in NewArgs}

Texts ==
    UNION {TextsOf(tok) : tok \in Tokens}
    \cup {W_hello, <<" ">> \o <<"/">> \o N_help}
    \cup UrlTexts
    \cup NewTexts

UserIds == {1, 2}
ChatIds == {-100, 42}

IdsValues ==
    {Undefined, <<>>, <<"0", ",", "x">>, <<"1">>, <<"2">>, <<"1", ",", "2">>}

\* every credential set, or one of them missing
Credentials ==
    {<<TRUE, TRUE, TRUE>>, <<FALSE, TRUE, TRUE>>, <<TRUE, FALSE, TRUE>>,
     <<TRUE, TRUE, FALSE>>}

EnvValues ==
    {[AUTHORIZED_TELEGRAM_IDS |-> ids, TELEGRAM_BOT_TOKEN |-> c[1],
      VERCEL_API_TOKEN |-> c[2], GITHUB_TOKEN |-> c[3]] :
        ids \in IdsValues, c \in Credentials}

-----------------------------------------------------------------------------
(* handleCommand, commands.ts 2849-2903 *)

Init ==
    /\ env \in EnvValues
    /\ pc = "idle"
    /\ chatId = 0
    /\ userId = 0
    /\ text = <<>>
    /\ command = <<>>
    /\ args = <<>>
    /\ local = NoLocals
    /\ calls = <<>>
    /\ ex = ExIdle
    /\ http = HttpIdle

\* the webhook calls handleCommand(chatId, userId, text)
handleCommand ==
    /\ pc = "idle"
    /\ chatId' \in ChatIds
    /\ userId' \in UserIds
    /\ text' \in Texts
    /\ pc' = "hc"
    /\ UNCHANGED <<env, command, args, local, calls, ex, http>>

\* the check of the first snapshot (commands.ts 860-866): an empty list
\* admits every caller
Authorized_failOpen == AuthorizedUsers(env) = {} \/ userId \in AuthorizedUsers(env)

\* 2860-2871: the caller passes both checks
Authorized == AuthorizedUsers(env) # {} /\ userId \in AuthorizedUsers(env)

\* a denial message that names the caller
DenialMessage_namesCaller(e, u) ==
    IF AuthorizedUsers(e) = {} THEN Msg("NotConfigured", <<>>)
    ELSE Msg("Unauthorized", <<DigitSeq[u + 1]>>)

\* 2860-2871: the message sent to caller u, who is denied under environment e
DenialMessage(e, u) ==
    IF AuthorizedUsers(e) = {} THEN Msg("NotConfigured", <<>>)
    ELSE Msg("Unauthorized", <<>>)

\* 2860-2866: no authorized user configured
hc_notConfigured ==
    /\ pc = "hc"
    /\ AuthorizedUsers(env) = {}
    /\ sendMessage(chatId, DenialMessage(env, userId), "fulfilled", "rejected")
    /\ Frame

\* the membership check placed after the check of the leading slash
hc_unauthorized_afterSlashCheck ==
    /\ pc = "hc"
    /\ AuthorizedUsers(env) # {}
    /\ userId \notin AuthorizedUsers(env)
    /\ sendMessage(chatId,
                   IF StartsWithSlash(text) THEN DenialMessage(env, userId)
                   ELSE Msg("SendACommand", <<>>),
                   "fulfilled", "rejected")
    /\ Frame

\* 2868-2871
hc_unauthorized ==
    /\ pc = "hc"
    /\ AuthorizedUsers(env) # {}
    /\ userId \notin AuthorizedUsers(env)
    /\ sendMessage(chatId, DenialMessage(env, userId), "fulfilled", "rejected")
    /\ Frame

\* 2873-2879
hc_prompt ==
    /\ pc = "hc"
    /\ Authorized
    /\ ~StartsWithSlash(text)
    /\ sendMessage(chatId, Msg("SendACommand", <<>>), "fulfilled", "rejected")
    /\ Frame

\* 2881-2893: the token is no key that commands[command] finds
hc_unknown ==
    /\ pc = "hc"
    /\ Authorized
    /\ StartsWithSlash(text)
    /\ Lookup(CommandOf(text)) = "undefined"
    /\ command' = CommandOf(text)
    /\ args' = ArgsOf(text)
    /\ sendMessage(chatId, Msg("UnknownCommand", CommandOf(text)), "fulfilled", "rejected")
    /\ UNCHANGED <<env, chatId, userId, text, ex, http>>

\* the dispatch with only the first argument normalized
hc_dispatch_firstOnly ==
    /\ pc = "hc"
    /\ Authorized
    /\ StartsWithSlash(text)
    /\ Lookup(CommandOf(text)) = "handler"
    /\ command' = CommandOf(text)
    /\ args' = LET raw == Tail(Parts(text))
               IN  [i \in 1..Len(raw) |->
                      IF i = 1 THEN extractProjectName(raw[i]) ELSE raw[i]]
    /\ pc' = "handler"
    /\ UNCHANGED <<env, chatId, userId, text, local, calls, ex, http>>

\* 2881-2896: the handler found is called with (chatId, args)
hc_dispatch ==
    /\ pc = "hc"
    /\ Authorized
    /\ StartsWithSlash(text)
    /\ Lookup(CommandOf(text)) = "handler"
    /\ command' = CommandOf(text)
    /\ args' = ArgsOf(text)
    /\ pc' = "handler"
    /\ UNCHANGED <<env, chatId, userId, text, local, calls, ex, http>>

\* 2885-2896: commands["constructor"] is the function Object; it is truthy,
\* the call Object(chatId, args) returns, and nothing is sent
hc_inheritedFunction ==
    /\ pc = "hc"
    /\ Authorized
    /\ StartsWithSlash(text)
    /\ Lookup(CommandOf(text)) = "Object"
    /\ command' = CommandOf(text)
    /\ args' = ArgsOf(text)
    /\ pc' = "fulfilled"
    /\ UNCHANGED <<env, chatId, userId, text, local, calls, ex, http>>

\* 2885-2897: commands["__proto__"] is Object.prototype; it is truthy and
\* calling it throws a TypeError inside the try block
hc_inheritedObject ==
    /\ pc = "hc"
    /\ Authorized
    /\ StartsWithSlash(text)
    /\ Lookup(CommandOf(text)) = "Object.prototype"
    /\ command' = CommandOf(text)
    /\ args' = ArgsOf(text)
    /\ pc' = "hc_catch"
    /\ local' = [local EXCEPT !.error = E_NotAFunction]
    /\ UNCHANGED <<env, chatId, userId, text, calls, ex, http>>

\* handleCommand without the try block: the error leaves handleCommand
hc_catch_absent ==
    /\ pc = "hc_catch"
    /\ pc' = "rejected"
    /\ UNCHANGED <<local, calls>>
    /\ Frame

\* 2897-2902: the catch-all around the handler
hc_catch ==
    /\ pc = "hc_catch"
    /\ sendMessage(chatId, Msg("CommandFailed", local.error), "fulfilled", "rejected")
    /\ Frame

-----------------------------------------------------------------------------
(* Handlers: start, help, ping *)

Running(name) == pc = "handler" /\ command = name

\* commands.start, 1003-1063
start ==
    /\ Running(N_start)
    /\ sendMessage(chatId, Msg("Start", <<>>), "fulfilled", "hc_catch")
    /\ Frame

\* commands.help, 1065-1067: awaits commands.start(chatId, [])
help ==
    /\ Running(N_help)
    /\ sendMessage(chatId, Msg("Start", <<>>), "fulfilled", "hc_catch")
    /\ Frame

\* commands.ping, 1069-1079
ping ==
    /\ Running(N_ping)
    /\ sendMessage(chatId, Msg("Pong", <<>>), "fulfilled", "hc_catch")
    /\ Frame



-----------------------------------------------------------------------------
(* Handlers that dispatch a workflow: genesis, audit, demo, component, sofia *)

\* the argument check written args.length < need - 1
Entry_offByOne(name, need, next) ==
    /\ IF Len(args) < need - 1
       THEN sendMessage(chatId, Msg("Usage", name), "fulfilled", "hc_catch")
       ELSE sendTyping(chatId, next, "hc_catch")
    /\ Frame

\* the first lines of a handler that needs `need` arguments: the usage
\* message and return, or the typing indicator
Entry(name, need, next) ==
    /\ IF Len(args) < need
       THEN sendMessage(chatId, Msg("Usage", name), "fulfilled", "hc_catch")
       ELSE sendTyping(chatId, next, "hc_catch")
    /\ Frame

\* the reply after a workflow dispatch: started, or failed to start
WorkflowReply(name) ==
    /\ sendMessage(chatId,
                   Msg(IF local.ok THEN "WorkflowStarted" ELSE "WorkflowFailed", name),
                   "fulfilled", "hc_catch")
    /\ Frame

\* s.includes(sub)
Includes(s, sub) ==
    \E i \in 1..(Len(s) + 1) :
        i + Len(sub) - 1 <= Len(s) /\ SubSeq(s, i, i + Len(sub) - 1) = sub

\* commands.genesis, 1404-1485
genesis_entry == Running(N_genesis) /\ Entry(N_genesis, 1, "genesis_check")

\* 1418-1431: validation, then the repository check
genesis_check ==
    /\ pc = "genesis_check"
    /\ IF ~validateProjectName(args[1])
       THEN sendMessage(chatId, Msg("InvalidProjectName", args[1]), "fulfilled", "hc_catch")
       ELSE repoExists(args[1], "genesis_exists")
    /\ Frame

\* the handler without the test of `exists`: genesis.yml is dispatched
\* whatever the repository check returned
genesis_exists_unchecked ==
    /\ pc = "genesis_exists"
    /\ triggerWorkflow(<<"genesis.yml">>, <<args[1]>>, "genesis_reply")
    /\ Frame

\* 1433-1468: list the repositories when the repository is missing,
\* dispatch genesis.yml when it exists
genesis_exists ==
    /\ pc = "genesis_exists"
    /\ IF ~local.ok
       THEN listReposDetailed("genesis_missing")
       ELSE triggerWorkflow(<<"genesis.yml">>, <<args[1]>>, "genesis_reply")
    /\ Frame

\* 1436-1457: the not-found reply, with the similar names when there are any
genesis_missing ==
    /\ pc = "genesis_missing"
    /\ LET similar == {i \in 1..Len(local.repos) :
                         Includes(toLowerCase(local.repos[i]), toLowerCase(args[1]))}
       IN  sendMessage(chatId,
                       Msg(IF similar # {} THEN "RepoNotFoundSimilar" ELSE "RepoNotFound",
                           args[1]),
                       "fulfilled", "hc_catch")
    /\ Frame

\* 1470-1484
genesis_reply == pc = "genesis_reply" /\ WorkflowReply(N_genesis)

\* commands.audit, 1487-1522
audit_entry == Running(N_audit) /\ Entry(N_audit, 1, "audit_trigger")

audit_trigger ==
    /\ pc = "audit_trigger"
    /\ triggerWorkflow(<<"audit.yml">>, <<args[1]>>, "audit_reply")
    /\ Frame

audit_reply == pc = "audit_reply" /\ WorkflowReply(N_audit)

\* commands.demo, 1524-1559
demo_entry == Running(N_demo) /\ Entry(N_demo, 1, "demo_trigger")

demo_trigger ==
    /\ pc = "demo_trigger"
    /\ triggerWorkflow(<<"demo.yml">>, <<args[1]>>, "demo_reply")
    /\ Frame

demo_reply == pc = "demo_reply" /\ WorkflowReply(N_demo)

\* commands.component, 1561-1626
component_entry == Running(N_component) /\ Entry(N_component, 2, "component_check")

\* 1577-1609: both validations, then the dispatch of component.yml with
\* project = args[1]
component_check ==
    /\ pc = "component_check"
    /\ IF ~validateComponentName(args[1])
       THEN sendMessage(chatId, Msg("InvalidComponentName", args[1]), "fulfilled", "hc_catch")
       ELSE IF ~validateProjectName(args[2])
       THEN sendMessage(chatId, Msg("InvalidProjectName", args[2]), "fulfilled", "hc_catch")
       ELSE triggerWorkflow(<<"component.yml">>, <<args[2], args[1]>>, "component_reply")
    /\ Frame

component_reply == pc = "component_reply" /\ WorkflowReply(N_component)

\* commands.sofia, 1628-1673
sofia_entry == Running(N_sofia) /\ Entry(N_sofia, 1, "sofia_trigger")

sofia_trigger ==
    /\ pc = "sofia_trigger"
    /\ triggerWorkflow(<<"sofia-deploy.yml">>, <<args[1]>>, "sofia_reply")
    /\ Frame

sofia_reply == pc = "sofia_reply" /\ WorkflowReply(N_sofia)

-----------------------------------------------------------------------------
(* Handlers on the deployment platform: deploy, rollback, cancel *)

\* commands.deploy, 1785-1829
deploy_entry == Running(N_deploy) /\ Entry(N_deploy, 1, "deploy_progress")

\* 1798-1801: the progress message, before the try block
deploy_progress ==
    /\ pc = "deploy_progress"
    /\ sendMessage(chatId, Msg("Deploying", args[1]), "deploy_trigger", "hc_catch")
    /\ Frame

\* 1804
deploy_trigger ==
    /\ pc = "deploy_trigger"
    /\ triggerDeployment(args[1], "deploy_reply", "deploy_catch")
    /\ Frame

\* s.slice(a, b) for 0 <= a <= b
Slice(s, a, b) == SubSeq(s, a + 1, Min({b, Len(s)}))

\* the success message with the whole id
deploy_reply_wholeId ==
    /\ pc = "deploy_reply"
    /\ sendMessage(chatId,
                   IF local.target = NoDeployment
                   THEN Msg("DeployFailed", args[1])
                   ELSE Msg("DeployTriggered",
                            local.target.id \o <<" ">> \o local.target.url),
                   "fulfilled", "deploy_catch")
    /\ Frame

\* 1806-1822
deploy_reply ==
    /\ pc = "deploy_reply"
    /\ sendMessage(chatId,
                   IF local.target = NoDeployment
                   THEN Msg("DeployFailed", args[1])
                   ELSE Msg("DeployTriggered",
                            Slice(local.target.id, 0, 12) \o <<" ">> \o local.target.url),
                   "fulfilled", "deploy_catch")
    /\ Frame

\* 1823-1828
deploy_catch ==
    /\ pc = "deploy_catch"
    /\ sendMessage(chatId, Msg("DeployError", local.error), "fulfilled", "hc_catch")
    /\ Frame

\* the catch block of a handler: "Error: <message>"
HandlerCatch ==
    /\ sendMessage(chatId, Msg("Error", local.error), "fulfilled", "hc_catch")
    /\ Frame

\* the search without the test i > 0: the latest deployment may be picked
PreviousReady_latestIncluded(ds) ==
    LET hits == {k \in 1..Len(ds) : ds[k].state = "READY"}
    IN  IF hits = {} THEN NoDeployment ELSE ds[Min(hits)]

\* deployments.find((d, i) => i > 0 && d.state === "READY")
PreviousReady(ds) ==
    LET hits == {k \in 2..Len(ds) : ds[k].state = "READY"}
    IN  IF hits = {} THEN NoDeployment ELSE ds[Min(hits)]

\* deployments.find(d => BUILDING or QUEUED or INITIALIZING)
ActiveDeployment(ds) ==
    LET hits == {k \in 1..Len(ds) : ds[k].state \in {"BUILDING", "QUEUED", "INITIALIZING"}}
    IN  IF hits = {} THEN NoDeployment ELSE ds[Min(hits)]

\* commands.rollback, 2053-2118
rollback_entry == Running(N_rollback) /\ Entry(N_rollback, 1, "rollback_project")

\* 2067
rollback_project ==
    /\ pc = "rollback_project"
    /\ getProject(args[1], "rollback_list")
    /\ Frame

\* 2069-2077
rollback_list ==
    /\ pc = "rollback_list"
    /\ IF local.project = NoProject
       THEN sendMessage(chatId, Msg("ProjectNotFound", args[1]), "fulfilled", "rollback_catch")
       ELSE listDeployments(local.project.id, 5, "rollback_pick", "rollback_catch")
    /\ Frame

\* 2079-2094
rollback_pick ==
    /\ pc = "rollback_pick"
    /\ IF PreviousReady(local.deployments) = NoDeployment
       THEN sendMessage(chatId, Msg("NoPreviousDeployment", args[1]), "fulfilled", "rollback_catch")
       ELSE sendMessage(chatId, Msg("RollingBack", args[1]), "rollback_promote", "rollback_catch")
    /\ Frame

\* 2096
rollback_promote ==
    /\ pc = "rollback_promote"
    /\ promoteDeployment(PreviousReady(local.deployments).id, local.project.id,
                         "rollback_reply")
    /\ Frame

\* 2098-2111
rollback_reply ==
    /\ pc = "rollback_reply"
    /\ sendMessage(chatId,
                   Msg(IF local.ok THEN "RollbackComplete" ELSE "RollbackFailed", args[1]),
                   "fulfilled", "rollback_catch")
    /\ Frame

\* 2112-2117
rollback_catch == pc = "rollback_catch" /\ HandlerCatch

\* commands.cancel, 2120-2179
cancel_entry == Running(N_cancel) /\ Entry(N_cancel, 1, "cancel_project")

\* 2134
cancel_project ==
    /\ pc = "cancel_project"
    /\ getProject(args[1], "cancel_list")
    /\ Frame

\* 2136-2144
cancel_list ==
    /\ pc = "cancel_list"
    /\ IF local.project = NoProject
       THEN sendMessage(chatId, Msg("ProjectNotFound", args[1]), "fulfilled", "cancel_catch")
       ELSE listDeployments(local.project.id, 3, "cancel_active", "cancel_catch")
    /\ Frame

\* 2145-2160
cancel_active ==
    /\ pc = "cancel_active"
    /\ IF ActiveDeployment(local.deployments) = NoDeployment
       THEN sendMessage(chatId, Msg("NoActiveDeployment", args[1]), "fulfilled", "cancel_catch")
       ELSE cancelDeployment(ActiveDeployment(local.deployments).id, "cancel_reply")
    /\ Frame

\* 2162-2172
cancel_reply ==
    /\ pc = "cancel_reply"
    /\ sendMessage(chatId,
                   Msg(IF local.ok THEN "DeploymentCancelled" ELSE "CancelFailed", args[1]),
                   "fulfilled", "cancel_catch")
    /\ Frame

\* 2173-2178
cancel_catch == pc = "cancel_catch" /\ HandlerCatch

-----------------------------------------------------------------------------
(* Handlers of the advanced deployment operations: clone, env-set, domain-add *)

\* the reply after cloneProject, setEnvVar or addDomain: the error line, or
\* the success message
ResultReply(name) ==
    /\ sendMessage(chatId, Msg(IF local.ok THEN "Done" ELSE "ResultError", name),
                   "fulfilled", "hc_catch")
    /\ Frame

\* args.slice(2).join(" ")
JoinSpace(as) ==
    IF as = <<>> THEN <<>> ELSE Head(as) \o JoinArgs(Tail(as))

\* commands.clone, 2690-2728
clone_entry == Running(N_clone) /\ Entry(N_clone, 2, "clone_progress")

\* 2706-2709
clone_progress ==
    /\ pc = "clone_progress"
    /\ sendMessage(chatId, Msg("Cloning", args[1] \o <<" ">> \o args[2]),
                   "clone_call", "hc_catch")
    /\ Frame

\* 2711
clone_call ==
    /\ pc = "clone_call"
    /\ cloneProject(args[1], args[2], "clone_reply")
    /\ Frame

\* 2713-2727
clone_reply == pc = "clone_reply" /\ ResultReply(N_clone)

\* commands["env-set"], 2730-2762
env_set_entry == Running(N_env_set) /\ Entry(N_env_set, 3, "env_set_call")

\* 2743-2747
env_set_call ==
    /\ pc = "env_set_call"
    /\ setEnvVar(args[1], args[2], JoinSpace(SubSeq(args, 3, Len(args))), "env_set_reply")
    /\ Frame

\* 2749-2761
env_set_reply == pc = "env_set_reply" /\ ResultReply(N_env_set)

\* commands["domain-add"], 2764-2797
domain_add_entry == Running(N_domain_add) /\ Entry(N_domain_add, 2, "domain_add_call")

\* 2777-2780
domain_add_call ==
    /\ pc = "domain_add_call"
    /\ addDomain(args[1], args[2], "domain_add_reply")
    /\ Frame

\* 2782-2796
domain_add_reply == pc = "domain_add_reply" /\ ResultReply(N_domain_add)

-----------------------------------------------------------------------------
(* Handlers that read a project: status, logs, errors, domains, env *)

\* the reply to a project that getProject did not find, inside the try block
\* of the handler
NotFoundReply(t, catch) ==
    sendMessage(chatId, Msg(t, args[1]), "fulfilled", catch)

\* commands.status, 1709-1783
status_entry == Running(N_status) /\ Entry(N_status, 1, "status_project")

\* 1722-1723
status_project ==
    /\ pc = "status_project"
    /\ getProject(args[1], "status_list")
    /\ Frame

\* the deployments listed without the test of the project
status_list_unchecked ==
    /\ pc = "status_list"
    /\ listDeployments(local.project.id, 5, "status_reply", "status_catch")
    /\ Frame

\* 1725-1733: the not-found reply names /sites
status_list ==
    /\ pc = "status_list"
    /\ IF local.project = NoProject
       THEN NotFoundReply("ProjectNotFoundUseSites", "status_catch")
       ELSE listDeployments(local.project.id, 5, "status_reply", "status_catch")
    /\ Frame

\* 1735-1776
status_reply ==
    /\ pc = "status_reply"
    /\ sendMessage(chatId,
                   IF Len(local.deployments) = 0
                   THEN Msg("NoDeployments", local.project.name)
                   ELSE Msg("Status", local.project.name \o local.deployments[1].url),
                   "fulfilled", "status_catch")
    /\ Frame

\* 1777-1782
status_catch == pc = "status_catch" /\ HandlerCatch

\* commands.logs, 1831-1887
logs_entry == Running(N_logs) /\ Entry(N_logs, 1, "logs_project")

\* 1844-1845
logs_project ==
    /\ pc = "logs_project"
    /\ getProject(args[1], "logs_list")
    /\ Frame

\* 1847-1855
logs_list ==
    /\ pc = "logs_list"
    /\ IF local.project = NoProject
       THEN NotFoundReply("ProjectNotFound", "logs_catch")
       ELSE listDeployments(local.project.id, 1, "logs_fetch", "logs_catch")
    /\ Frame

\* 1857-1865
logs_fetch ==
    /\ pc = "logs_fetch"
    /\ IF Len(local.deployments) = 0
       THEN sendMessage(chatId, Msg("NoDeployments", args[1]), "fulfilled", "logs_catch")
       ELSE getDeploymentLogs(local.deployments[1].id, "logs_reply")
    /\ Frame

\* the reply after a list adapter: nothing to show, or the list
ListReply(name, catch) ==
    /\ sendMessage(chatId, Msg(IF local.items = 0 THEN "Nothing" ELSE "List", name),
                   "fulfilled", catch)
    /\ Frame

\* 1867-1880
logs_reply == pc = "logs_reply" /\ ListReply(N_logs, "logs_catch")

\* 1881-1886
logs_catch == pc = "logs_catch" /\ HandlerCatch

\* commands.errors, 1889-1944
errors_entry == Running(N_errors) /\ Entry(N_errors, 1, "errors_project")

\* 1902-1903
errors_project ==
    /\ pc = "errors_project"
    /\ getProject(args[1], "errors_fetch")
    /\ Frame

\* 1905-1916
errors_fetch ==
    /\ pc = "errors_fetch"
    /\ IF local.project = NoProject
       THEN NotFoundReply("ProjectNotFound", "errors_catch")
       ELSE getRuntimeLogs(local.project.id, "errors_reply")
    /\ Frame

\* 1918-1937
errors_reply == pc = "errors_reply" /\ ListReply(N_errors, "errors_catch")

\* 1938-1943
errors_catch == pc = "errors_catch" /\ HandlerCatch

\* commands.domains, 1946-1997
domains_entry == Running(N_domains) /\ Entry(N_domains, 1, "domains_project")

\* 1958-1959
domains_project ==
    /\ pc = "domains_project"
    /\ getProject(args[1], "domains_fetch")
    /\ Frame

\* 1961-1969
domains_fetch ==
    /\ pc = "domains_fetch"
    /\ IF local.project = NoProject
       THEN NotFoundReply("ProjectNotFound", "domains_catch")
       ELSE getProjectDomains(local.project.id, "domains_reply")
    /\ Frame

\* 1971-1990
domains_reply == pc = "domains_reply" /\ ListReply(N_domains, "domains_catch")

\* 1991-1996
domains_catch == pc = "domains_catch" /\ HandlerCatch

\* commands.env, 1999-2051
env_entry == Running(N_env) /\ Entry(N_env, 1, "env_project")

\* 2012-2013
env_project ==
    /\ pc = "env_project"
    /\ getProject(args[1], "env_fetch")
    /\ Frame

\* 2015-2023
env_fetch ==
    /\ pc = "env_fetch"
    /\ IF local.project = NoProject
       THEN NotFoundReply("ProjectNotFound", "env_catch")
       ELSE getProjectEnvVars(local.project.id, "env_reply")
    /\ Frame

\* 2025-2044
env_reply == pc = "env_reply" /\ ListReply(N_env, "env_catch")

\* 2045-2050
env_catch == pc = "env_catch" /\ HandlerCatch

-----------------------------------------------------------------------------
(* commands.new, commands.ts 1301-1402 *)

\* {1,100} of SAFE_BUSINESS_NAME
BusinessNameMax == 100

\* the class of SAFE_BUSINESS_NAME
BusinessChar ==
    Lower \cup Upper \cup Digit \cup
    {" ", "'", "\"", ",", ".", "-",
     "á", "é", "í", "ó", "ú", "ñ", "Á", "É", "Í", "Ó", "Ú", "Ñ", "ü", "Ü"}

\* SAFE_BUSINESS_NAME = /^[A-Za-z0-9 '"áéíóúñÁÉÍÓÚÑüÜ,.\-]{1,100}$/
validateBusinessName(name) ==
    /\ Len(name) >= 1
    /\ Len(name) <= BusinessNameMax
    /\ AllIn(name, 1, Len(name), BusinessChar)

Quote == {"\"", "'"}
\* \w
WordChar == Lower \cup Upper \cup Digit \cup {"_"}

\* the end of the longest run of characters of C that starts at position i
\* of s: the position of its last character, i - 1 when the run is empty
RunEnd(s, i, C) ==
    LET stops == {k \in i..Len(s) : s[k] \notin C}
    IN  IF stops = {} THEN Len(s) ELSE Min(stops) - 1

\* /["']([^"']+)["']\s+(\w+)/ at position i of s: the two groups, or <<>>
QuotedAt(s, i) ==
    IF ~(i <= Len(s) /\ s[i] \in Quote) THEN <<>>
    ELSE LET nameEnd == RunEnd(s, i + 1, {s[k] : k \in 1..Len(s)} \ Quote)
             close == nameEnd + 1
             wsEnd == RunEnd(s, close + 1, White)
             wordEnd == RunEnd(s, wsEnd + 1, WordChar)
         IN  IF /\ nameEnd >= i + 1
                /\ close <= Len(s)
                /\ wsEnd >= close + 1
                /\ wordEnd >= wsEnd + 1
             THEN <<SubSeq(s, i + 1, nameEnd), SubSeq(s, wsEnd + 1, wordEnd)>>
             ELSE <<>>

\* fullText.match(...): the groups of the leftmost match, or <<>>
QuotedMatch(s) ==
    LET hits == {i \in 1..Len(s) : QuotedAt(s, i) # <<>>}
    IN  IF hits = {} THEN <<>> ELSE QuotedAt(s, Min(hits))

\* 1330-1341: the business name and the sector parsed from the arguments
ParseNew(as) ==
    LET quotedMatch == QuotedMatch(JoinSpace(as))
    IN  IF quotedMatch # <<>>
        THEN [businessName |-> quotedMatch[1], sector |-> quotedMatch[2]]
        ELSE [businessName |-> JoinSpace(SubSeq(as, 1, Len(as) - 1)),
              sector |-> as[Len(as)]]

\* validSectors, 1354-1363
validSectors ==
    {<<"h","o","s","p","i","t","a","l","i","t","y">>,
     <<"r","e","s","t","a","u","r","a","n","t">>,
     <<"n","i","g","h","t","c","l","u","b">>,
     S_yacht,
     <<"v","i","l","l","a">>,
     S_tour,
     <<"h","o","t","e","l">>,
     S_spa}

\* 1302-1325
new_entry == Running(N_new) /\ Entry(N_new, 2, "new_check")

\* the handler that dispatches the sector as it was typed
new_check_sectorAsTyped ==
    /\ pc = "new_check"
    /\ LET p == ParseNew(args)
       IN  IF ~validateBusinessName(p.businessName)
           THEN sendMessage(chatId, Msg("InvalidBusinessName", p.businessName),
                            "fulfilled", "hc_catch")
           ELSE IF toLowerCase(p.sector) \notin validSectors
           THEN sendMessage(chatId, Msg("InvalidSector", p.sector), "fulfilled", "hc_catch")
           ELSE triggerWorkflow(<<"new-project.yml">>, <<p.businessName, p.sector>>,
                                "new_reply")
    /\ Frame

\* 1330-1383: the arguments are parsed and validated; the error reply, or
\* the dispatch of new-project.yml
new_check ==
    /\ pc = "new_check"
    /\ LET p == ParseNew(args)
       IN  IF ~validateBusinessName(p.businessName)
           THEN sendMessage(chatId, Msg("InvalidBusinessName", p.businessName),
                            "fulfilled", "hc_catch")
           ELSE IF toLowerCase(p.sector) \notin validSectors
           THEN sendMessage(chatId, Msg("InvalidSector", p.sector), "fulfilled", "hc_catch")
           ELSE triggerWorkflow(<<"new-project.yml">>,
                                <<p.businessName, toLowerCase(p.sector)>>, "new_reply")
    /\ Frame

\* 1385-1401
new_reply == pc = "new_reply" /\ WorkflowReply(N_new)

-----------------------------------------------------------------------------
(* The other handlers that require arguments: their argument check in full,
   the work after it as one adapter call and one reply *)

\* args.length < 2 in chat and copy; args.length === 0 in the others
Required(name) == IF name \in {N_chat, N_copy} THEN 2 ELSE 1

\* the argument check of research (1084), build (1150), fix
\* (2184), review (2252), optimize (2293), chat (2334), roi (2365), pitch
\* (2383), proposal (2425), competitor (2456), speed (2513), seo (2547),
\* uptime (2577), copy (2601), translate (2629), image (2658) and preview
\* (2800): the usage message and return, or the typing indicator; roi sends
\* no typing indicator
other_entry ==
    /\ pc = "handler"
    /\ command \in OtherNames
    /\ IF Len(args) >= Required(command) /\ command = N_roi
       THEN pc' = "other_work" /\ UNCHANGED <<local, calls>> /\ Frame
       ELSE Entry(command, Required(command), "other_work")

\* the adapter the handler awaits: it returns, or throws
other_work ==
    /\ pc = "other_work"
    /\ calls' = Append(calls, Call("work", 0, NoText, <<command>>))
    /\ \/ pc' = "other_reply" /\ local' = local
       \/ pc' = "hc_catch" /\ local' = [local EXCEPT !.error = E_FetchFailed]
    /\ Frame

\* the result, or the error the adapter returned
other_reply ==
    /\ pc = "other_reply"
    /\ sendMessage(chatId, Msg("Result", command), "fulfilled", "hc_catch")
    /\ Frame

-----------------------------------------------------------------------------
Next ==
    \/ handleCommand
    \/ hc_notConfigured
    \/ hc_unauthorized
    \/ hc_prompt
    \/ hc_unknown
    \/ hc_dispatch
    \/ hc_inheritedFunction
    \/ hc_inheritedObject
    \/ hc_catch
    \/ start
    \/ help
    \/ ping
    \/ genesis_entry
    \/ genesis_check
    \/ genesis_exists
    \/ genesis_missing
    \/ genesis_reply
    \/ audit_entry
    \/ audit_trigger
    \/ audit_reply
    \/ demo_entry
    \/ demo_trigger
    \/ demo_reply
    \/ component_entry
    \/ component_check
    \/ component_reply
    \/ sofia_entry
    \/ sofia_trigger
    \/ sofia_reply
    \/ deploy_entry
    \/ deploy_progress
    \/ deploy_trigger
    \/ deploy_reply
    \/ deploy_catch
    \/ rollback_entry
    \/ rollback_project
    \/ rollback_list
    \/ rollback_pick
    \/ rollback_promote
    \/ rollback_reply
    \/ rollback_catch
    \/ cancel_entry
    \/ cancel_project
    \/ cancel_list
    \/ cancel_active
    \/ cancel_reply
    \/ cancel_catch
    \/ clone_entry
    \/ clone_progress
    \/ clone_call
    \/ clone_reply
    \/ env_set_entry
    \/ env_set_call
    \/ env_set_reply
    \/ domain_add_entry
    \/ domain_add_call
    \/ domain_add_reply
    \/ status_entry
    \/ status_project
    \/ status_list
    \/ status_reply
    \/ status_catch
    \/ logs_entry
    \/ logs_project
    \/ logs_list
    \/ logs_fetch
    \/ logs_reply
    \/ logs_catch
    \/ errors_entry
    \/ errors_project
    \/ errors_fetch
    \/ errors_reply
    \/ errors_catch
    \/ domains_entry
    \/ domains_project
    \/ domains_fetch
    \/ domains_reply
    \/ domains_catch
    \/ env_entry
    \/ env_project
    \/ env_fetch
    \/ env_reply
    \/ env_catch
    \/ new_entry
    \/ new_check
    \/ new_reply
    \/ other_entry
    \/ other_work
    \/ other_reply

Spec == Init /\ [][Next]_vars

-----------------------------------------------------------------------------
(* The webhook endpoint, app/api/telegram/webhook/route.ts *)

T_ping == <<"/">> \o N_ping
T_hello == <<"h","e","l","l","o">>
T_frobnicate == <<"/","f","r","o","b","n","i","c","a","t","e">>
T_secret == <<"s","3">>
T_wrong == <<"b","a","d">>

\* what a message of an update carries as text: nothing, the empty string,
\* a command, a plain sentence, an unknown command
UpdateTexts == {Undefined, <<>>, T_ping, T_hello, T_frobnicate}

\* an optional object is a sequence of at most one identifier
Option(ids) == {<<>>} \cup {<<i>> : i \in ids}

\* the bodies a request can carry: bytes that are no JSON, the JSON value
\* null, an update without a message, an update with a message
Bodies ==
    {[json |-> "invalid", message |-> FALSE, text |-> Undefined,
      from |-> <<>>, chat |-> <<>>],
     [json |-> "null", message |-> FALSE, text |-> Undefined,
      from |-> <<>>, chat |-> <<>>],
     [json |-> "object", message |-> FALSE, text |-> Undefined,
      from |-> <<>>, chat |-> <<>>]}
    \cup {[json |-> "object", message |-> TRUE, text |-> t, from |-> f,
           chat |-> c] :
             t \in UpdateTexts, f \in Option(UserIds), c \in Option(ChatIds)}

\* the deployments the endpoint runs in
WebhookEnvs ==
    {[AUTHORIZED_TELEGRAM_IDS |-> ids, TELEGRAM_BOT_TOKEN |-> tok,
      VERCEL_API_TOKEN |-> TRUE, GITHUB_TOKEN |-> TRUE] :
        ids \in {Undefined, <<"1">>}, tok \in BOOLEAN}

\* NextResponse.json(body): status 200
JsonResponse(ok) == [status |-> 200, ok |-> ok]

\* update.message?.text && update.message.from && update.message.chat
\* (route.ts 9); the empty string is falsy
IsTextMessage(b) ==
    /\ b.message
    /\ b.text # Undefined
    /\ b.text # <<>>
    /\ b.from # <<>>
    /\ b.chat # <<>>

\* a request has arrived: its body, the secret header it carries (<<>> when
\* it carries none) and the secret the operator has configured (<<>> when
\* none is); request.json() is pending
WebhookInit ==
    /\ \E b \in Bodies, h \in {<<>>, T_secret, T_wrong}, k \in {<<>>, T_secret} :
          http = [stage |-> "received", secret |-> k, header |-> h, body |-> b,
                  response |-> <<>>, logged |-> FALSE]
    /\ env \in WebhookEnvs
    /\ pc = "idle"
    /\ chatId = 0
    /\ userId = 0
    /\ text = <<>>
    /\ command = <<>>
    /\ args = <<>>
    /\ local = NoLocals
    /\ calls = <<>>
    /\ ex = ExIdle

\* the handler of the earlier snapshot (unnamed/part_002 25-37): a failure of
\* request.json() answers ok: false
POST_failureReported ==
    /\ http.stage = "received"
    /\ IF http.body.json = "object" /\ IsTextMessage(http.body)
       THEN /\ chatId' = http.body.chat[1]
            /\ userId' = http.body.from[1]
            /\ text' = http.body.text
            /\ pc' = "hc"
       ELSE UNCHANGED <<chatId, userId, text, pc>>
    /\ http' = [http EXCEPT !.stage = "responded",
                            !.response = JsonResponse(http.body.json = "object")]
    /\ UNCHANGED <<env, command, args, local, calls, ex>>

\* the handler of the earlier snapshot (unnamed/part_003 12-24): the
\* invocation is awaited, and the response follows its settlement
POST_awaited ==
    \/ /\ http.stage = "received"
       /\ IF http.body.json = "object" /\ IsTextMessage(http.body)
          THEN /\ chatId' = http.body.chat[1]
               /\ userId' = http.body.from[1]
               /\ text' = http.body.text
               /\ pc' = "hc"
               /\ http' = [http EXCEPT !.stage = "awaiting"]
          ELSE /\ UNCHANGED <<chatId, userId, text, pc>>
               /\ http' = [http EXCEPT !.stage = "responded",
                                       !.response = JsonResponse(TRUE)]
       /\ UNCHANGED <<env, command, args, local, calls, ex>>
    \/ /\ http.stage = "awaiting"
       /\ pc \in {"fulfilled", "rejected"}
       /\ http' = [http EXCEPT !.stage = "responded",
                               !.response = JsonResponse(TRUE)]
       /\ UNCHANGED <<env, pc, chatId, userId, text, command, args, local,
                      calls, ex>>

\* POST, route.ts 5-25: request.json() settles.  Bytes that are no JSON
\* reject it, and reading update.message of null throws: both reach the
\* catch at 20-23, which answers ok: true.  A text message starts
\* handleCommand without awaiting it (16), and ok: true is returned (19).
\* Neither http.header nor http.secret is read.
POST ==
    /\ http.stage = "received"
    /\ IF http.body.json = "object" /\ IsTextMessage(http.body)
       THEN /\ chatId' = http.body.chat[1]
            /\ userId' = http.body.from[1]
            /\ text' = http.body.text
            /\ pc' = "hc"
       ELSE UNCHANGED <<chatId, userId, text, pc>>
    /\ http' = [http EXCEPT !.stage = "responded",
                            !.response = JsonResponse(TRUE)]
    /\ UNCHANGED <<env, command, args, local, calls, ex>>

\* .catch(console.error), route.ts 16: a rejection of the invocation is
\* logged
POST_onRejected ==
    /\ pc = "rejected"
    /\ ~http.logged
    /\ http.stage # "off"
    /\ http' = [http EXCEPT !.logged = TRUE]
    /\ UNCHANGED <<env, pc, chatId, userId, text, command, args, local, calls, ex>>

WebhookNext ==
    \/ POST
    \/ POST_onRejected
    \/ hc_notConfigured
    \/ hc_unauthorized
    \/ hc_prompt
    \/ hc_unknown
    \/ hc_dispatch
    \/ hc_catch
    \/ ping

SpecWebhook == WebhookInit /\ [][WebhookNext]_vars

-----------------------------------------------------------------------------
(* The messages of /env and /env-set as functions of what the handlers read,
   commands.ts 1999-2051 and 2730-2762; setEnvVar, unnamed/part_005 88-175 *)

K_API == <<"A","P","I">>
K_DB == <<"D","B">>
V_one == <<"s","k","-","1">>
V_two == <<"s","k","-","2">>

\* the line of a variable with its value
EnvLine_withValue(e) ==
    [icon |-> IF e.type = "secret" THEN "lock" ELSE "memo", key |-> e.key,
     targets |-> e.target, value |-> e.value]

\* 2033-2039: the line of a variable: icon, key and targets
EnvLine(e) ==
    [icon |-> IF e.type = "secret" THEN "lock" ELSE "memo", key |-> e.key,
     targets |-> e.target]

\* commands.env after the lookup, 2025-2044: the messages sent for the list
\* getProjectEnvVars returned
EnvMessages(projectName, envVars) ==
    IF Len(envVars) = 0
    THEN <<[t |-> "NoEnvVars", project |-> projectName]>>
    ELSE <<[t |-> "EnvVars", project |-> projectName, count |-> Len(envVars),
            lines |-> [i \in 1..Len(envVars) |-> EnvLine(envVars[i])]]>>

\* what the platform does with a request of setEnvVar
SetOutcomes == {"projectNotOk", "updated", "updateNotOk", "created",
                "createNotOk", "rejected"}

\* setEnvVar(projectName, key, value), part_005 88-175: {success, error}
setEnvVarResult(token, outcome, projectName, key, value) ==
    IF ~token THEN [success |-> FALSE, error |-> <<"VERCEL_API_TOKEN not configured">>]
    ELSE IF outcome = "projectNotOk"
    THEN [success |-> FALSE, error |-> <<"Project '">> \o projectName \o <<"' not found">>]
    ELSE IF outcome = "updateNotOk"
    THEN [success |-> FALSE, error |-> <<"Failed to update env var">>]
    ELSE IF outcome = "createNotOk"
    THEN [success |-> FALSE, error |-> <<"Failed to create env var">>]
    ELSE IF outcome = "rejected"
    THEN [success |-> FALSE, error |-> E_FetchFailed]
    ELSE [success |-> TRUE, error |-> <<>>]

\* commands["env-set"], 2730-2762: the messages sent for the argument list
EnvSetMessages(as, token, outcome) ==
    IF Len(as) < 3 THEN <<[t |-> "EnvSetUsage"]>>
    ELSE LET result == setEnvVarResult(token, outcome, as[1], as[2],
                                       JoinSpace(SubSeq(as, 3, Len(as))))
         IN  IF ~result.success
             THEN <<[t |-> "ResultError", error |-> result.error]>>
             ELSE <<[t |-> "EnvVarSet", project |-> as[1], key |-> as[2]]>>

\* the values of two runs that are alike in everything else
ValuePairs ==
    {<<a, b>> : a \in {<<V_one>>, <<V_two>>, <<V_one, V_two>>},
                b \in {<<V_one>>, <<V_two>>, <<W_app>>, <<K_API>>}}

\* two runs of one command are chosen: the same project, key, credential,
\* stored list (by index) and platform outcome, and a value for each run
SecrecyInit ==
    /\ \E cmd \in {N_env, N_env_set}, key \in {K_API, K_DB}, tok \in BOOLEAN,
          o \in SetOutcomes, n \in 1..3, vs \in ValuePairs :
          ex = [stage |-> "chosen", command |-> cmd, project |-> W_app,
                key |-> key, token |-> tok, outcome |-> o, stored |-> n,
                value1 |-> vs[1], value2 |-> vs[2], out1 |-> <<>>, out2 |-> <<>>]
    /\ env = [AUTHORIZED_TELEGRAM_IDS |-> <<>>, TELEGRAM_BOT_TOKEN |-> FALSE,
              VERCEL_API_TOKEN |-> FALSE, GITHUB_TOKEN |-> FALSE]
    /\ pc = "off"
    /\ chatId = 0
    /\ userId = 0
    /\ text = <<>>
    /\ command = <<>>
    /\ args = <<>>
    /\ local = <<>>
    /\ calls = <<>>
    /\ http = HttpIdle

\* the list the platform stores in a run whose value is v, by index
StoredList(n, v) ==
    IF n = 1 THEN <<>>
    ELSE IF n = 2
    THEN <<[key |-> K_API, target |-> <<"production">>, type |-> "secret", value |-> v]>>
    ELSE <<[key |-> K_API, target |-> <<"production", "preview">>, type |-> "plain",
            value |-> v],
           [key |-> K_DB, target |-> <<"preview">>, type |-> "secret", value |-> V_one]>>

\* the messages of a run of ex.command with the values vs
RunMessages(vs) ==
    IF ex.command = N_env
    THEN EnvMessages(ex.project, StoredList(ex.stored, JoinSpace(vs)))
    ELSE EnvSetMessages(<<ex.project, ex.key>> \o vs, ex.token, ex.outcome)

\* the first run
SecrecyFirst ==
    /\ ex.stage = "chosen"
    /\ ex' = [ex EXCEPT !.stage = "first", !.out1 = RunMessages(ex.value1)]
    /\ UNCHANGED mainvars

\* the second run
SecrecySecond ==
    /\ ex.stage = "first"
    /\ ex' = [ex EXCEPT !.stage = "second", !.out2 = RunMessages(ex.value2)]
    /\ UNCHANGED mainvars

SecrecyNext == SecrecyFirst \/ SecrecySecond

SpecSecrecy == SecrecyInit /\ [][SecrecyNext]_vars

-----------------------------------------------------------------------------
(* Two invocations of handleCommand in flight, commands.ts 2849-2903: the
   variables hold the invocation that runs, ex.other the one that is
   suspended at an await; the configuration is all they share *)

T_deploy_app == <<"/">> \o N_deploy \o <<" ">> \o W_app

ConcurrentTexts == {T_ping, T_hello, T_deploy_app}

\* the conversation of each invocation
OwnChat(who) == IF who = "A" THEN 42 ELSE -100

Other(who) == IF who = "A" THEN "B" ELSE "A"

\* the parameters and locals of the invocation that runs
Running_ctx ==
    [pc |-> pc, chatId |-> chatId, userId |-> userId, text |-> text,
     command |-> command, args |-> args, local |-> local, calls |-> calls]

\* both invocations have been called
ConcurrentInit ==
    /\ env \in {[AUTHORIZED_TELEGRAM_IDS |-> <<"1">>, TELEGRAM_BOT_TOKEN |-> tok,
                 VERCEL_API_TOKEN |-> TRUE, GITHUB_TOKEN |-> TRUE] : tok \in BOOLEAN}
    /\ pc = "hc"
    /\ chatId = OwnChat("A")
    /\ userId \in UserIds
    /\ text \in ConcurrentTexts
    /\ command = <<>>
    /\ args = <<>>
    /\ local = NoLocals
    /\ calls = <<>>
    /\ \E u \in UserIds, t \in ConcurrentTexts :
          ex = [stage |-> "concurrent", running |-> "A",
                other |-> [pc |-> "hc", chatId |-> OwnChat("B"), userId |-> u,
                           text |-> t, command |-> <<>>, args |-> <<>>,
                           local |-> NoLocals, calls |-> <<>>]]
    /\ http = HttpIdle

\* a switch that leaves the conversation id where it is, as a variable of
\* the module would be
Switch_chatShared ==
    /\ ex.stage = "concurrent"
    /\ ex' = [ex EXCEPT !.running = Other(ex.running), !.other = Running_ctx]
    /\ pc' = ex.other.pc
    /\ userId' = ex.other.userId
    /\ text' = ex.other.text
    /\ command' = ex.other.command
    /\ args' = ex.other.args
    /\ local' = ex.other.local
    /\ calls' = ex.other.calls
    /\ UNCHANGED <<env, chatId, http>>

\* the invocation that runs is suspended at its await and the other one
\* continues: parameters and locals belong to the invocation
Switch ==
    /\ ex.stage = "concurrent"
    /\ ex' = [ex EXCEPT !.running = Other(ex.running), !.other = Running_ctx]
    /\ pc' = ex.other.pc
    /\ chatId' = ex.other.chatId
    /\ userId' = ex.other.userId
    /\ text' = ex.other.text
    /\ command' = ex.other.command
    /\ args' = ex.other.args
    /\ local' = ex.other.local
    /\ calls' = ex.other.calls
    /\ UNCHANGED <<env, http>>

ConcurrentNext ==
    \/ Switch
    \/ hc_unauthorized
    \/ hc_prompt
    \/ hc_dispatch
    \/ hc_catch
    \/ ping
    \/ deploy_entry
    \/ deploy_progress
    \/ deploy_trigger
    \/ deploy_reply
    \/ deploy_catch

SpecConcurrent == ConcurrentInit /\ [][ConcurrentNext]_vars

-----------------------------------------------------------------------------
(* The generative-text operations that read a JSON object from the reply of
   the provider: callClaudeResearch (research.ts 69-197), generatePitch and
   analyzeCompetitors (client-acquisition.ts 111-208, 276-365),
   generateCopy (telegram.ts 113-184) *)

\* the longest reply of the provider
MaxReply == 3

\* the replies: strings of braces and other text
RECURSIVE Replies(_)
Replies(n) ==
    IF n = 0 THEN {<<>>}
    ELSE Replies(n - 1) \cup
         {r \o <<c>> : r \in {q \in Replies(n - 1) : Len(q) = n - 1},
                       c \in {"{", "}", "x"}}

\* text.match(/\{[\s\S]*\}/): from the first "{" to the last "}" after it,
\* or <<>> when there is none
JsonMatch(t) ==
    LET opens == {i \in 1..Len(t) : t[i] = "{"}
    IN  IF opens = {} THEN <<>>
        ELSE LET closes == {j \in (Min(opens) + 1)..Len(t) : t[j] = "}"}
             IN  IF closes = {} THEN <<>> ELSE SubSeq(t, Min(opens), Max(closes))

\* JSON.parse(s) returns for the one object these characters can spell, and
\* throws a SyntaxError for every other string
Parses(s) == s = <<"{", "}">>

GenerateOps == {"research", "pitch", "competitor", "copy"}

\* what an operation returns: parsed from the reply, the default it builds
\* without a parsed object, the template or mock data it returns without a
\* key, or {success: false, error}; `requested` says whether the provider
\* was called
Returned(kind, requested) ==
    [kind |-> kind, success |-> kind # "failure", requested |-> requested]

\* the operation `op` with the key set or not, for a provider that rejects
\* the request or answers upstream.text.  Without a key: mock research
\* (research.ts 75-79) or the template with success: true
\* (client-acquisition.ts 118-133, 290-306; telegram.ts 119-127).  JSON.parse
\* is inside the try block: its error is caught with the errors of the
\* request, by getMockResearch in research.ts 194-197 and by
\* {success: false} in the others (client-acquisition.ts 198-208, 357-364;
\* telegram.ts 176-184).
Generate(op, key, upstream) ==
    IF ~key THEN Returned(IF op = "research" THEN "mock" ELSE "template", FALSE)
    ELSE IF upstream.rejected
    THEN Returned(IF op = "research" THEN "mock" ELSE "failure", TRUE)
    ELSE IF JsonMatch(upstream.text) = <<>>
    THEN Returned(IF op = "research" THEN "mock" ELSE "default", TRUE)
    ELSE IF Parses(JsonMatch(upstream.text))
    THEN Returned("parsed", TRUE)
    ELSE Returned(IF op = "research" THEN "mock" ELSE "failure", TRUE)

\* an operation, the configuration and the behaviour of the provider are
\* chosen
GenerateInit ==
    /\ \E op \in GenerateOps, key \in BOOLEAN,
          up \in {[rejected |-> TRUE, text |-> <<>>]} \cup
                 {[rejected |-> FALSE, text |-> t] : t \in Replies(MaxReply)} :
          ex = [stage |-> "chosen", op |-> op, key |-> key, upstream |-> up,
                result |-> Returned("none", FALSE)]
    /\ env = [AUTHORIZED_TELEGRAM_IDS |-> <<>>, TELEGRAM_BOT_TOKEN |-> FALSE,
              VERCEL_API_TOKEN |-> FALSE, GITHUB_TOKEN |-> FALSE]
    /\ pc = "off"
    /\ chatId = 0
    /\ userId = 0
    /\ text = <<>>
    /\ command = <<>>
    /\ args = <<>>
    /\ local = <<>>
    /\ calls = <<>>
    /\ http = HttpIdle

\* the operation is awaited
GenerateCall ==
    /\ ex.stage = "chosen"
    /\ ex' = [ex EXCEPT !.stage = "returned",
                        !.result = Generate(ex.op, ex.key, ex.upstream)]
    /\ UNCHANGED mainvars

\* the handler builds its reply: the error line when success is false
\* (commands.ts 2416-2419), the formatted result otherwise
GenerateReply ==
    /\ ex.stage = "returned"
    /\ ex' = [ex EXCEPT !.stage = IF ex.result.success THEN "replied" ELSE "error"]
    /\ UNCHANGED mainvars

GenerateNext == GenerateCall \/ GenerateReply

SpecGenerate == GenerateInit /\ [][GenerateNext]_vars

-----------------------------------------------------------------------------
(* Properties *)

Terminal == pc \in {"fulfilled", "rejected"}
Started == pc \notin {"idle", "hc", "off"}

\* the one call of a run that sends message m to the conversation and
\* invokes nothing else
OnlySend(m) == calls = <<Call("sendMessage", chatId, m, <<>>)>>

Sends(cs) == {k \in 1..Len(cs) : cs[k].op = "sendMessage"}
FailedReplies(cs) == {k \in Sends(cs) : cs[k].text.t = "CommandFailed"}

\* C1: when the configured allow-list is empty, handleCommand, for every
\* caller and every text, sends exactly one message, the "not configured"
\* denial, to the conversation, invokes no other adapter and no handler, and
\* parses nothing.
Claim1_FailClosed ==
    /\ pc \in {"idle", "hc"} => calls = <<>>
    /\ (AuthorizedUsers(env) = {} /\ Started) =>
          /\ Terminal
          /\ OnlySend(Msg("NotConfigured", <<>>))
          /\ command = <<>> /\ args = <<>>

\* a command of a registered name was denied although the variable is set
\* (to entries none of which is a caller id)
Witness1_FailClosed ==
    /\ env.AUTHORIZED_TELEGRAM_IDS = <<"0", ",", "x">>
    /\ pc = "fulfilled"
    /\ StartsWithSlash(text)
    /\ Lookup(CommandOf(text)) = "handler"
    /\ OnlySend(Msg("NotConfigured", <<>>))

\* C2: when the allow-list is not empty and the caller is no member of it,
\* handleCommand, for every text, sends exactly one message, the unauthorized
\* message, and invokes no other adapter and no handler; nothing is parsed
\* before the check.
Claim2_Unauthorized ==
    (AuthorizedUsers(env) # {} /\ userId \notin AuthorizedUsers(env) /\ Started) =>
        /\ Terminal
        /\ OnlySend(Msg("Unauthorized", <<>>))
        /\ command = <<>> /\ args = <<>>

\* a text that is no command was denied to a caller outside the list
Witness2_Unauthorized ==
    /\ AuthorizedUsers(env) = {1}
    /\ userId = 2
    /\ ~StartsWithSlash(text)
    /\ pc = "fulfilled"
    /\ OnlySend(Msg("Unauthorized", <<>>))

Denied == Terminal /\ ~Authorized

\* C3, as stated: the message sent to a denied caller is the same whether the
\* allow-list is empty or the caller is absent from a non-empty list: the
\* message of this run is the message of every other denied run.
Claim3_SameDenialMessage ==
    Denied =>
        \A e2 \in EnvValues, u2 \in UserIds :
            u2 \notin AuthorizedUsers(e2) => calls[1].text = DenialMessage(e2, u2)

\* C3, amended: the message sent to a denied caller depends on the reason of
\* the denial alone: it is the message of every other run denied for the
\* same reason, whoever the caller, whatever the text and the list.
Claim3_MessageByReason ==
    Denied =>
        /\ Len(calls) = 1
        /\ \A e2 \in EnvValues, u2 \in UserIds :
              (/\ u2 \notin AuthorizedUsers(e2)
               /\ (AuthorizedUsers(e2) = {}) = (AuthorizedUsers(env) = {})) =>
                  calls[1].text = DenialMessage(e2, u2)

\* caller 2 was denied under the list "1", which denies no other caller
Witness3_MessageByReason ==
    /\ Denied
    /\ env.AUTHORIZED_TELEGRAM_IDS = <<"1">>
    /\ userId = 2
    /\ pc = "fulfilled"

Claim5_UnknownCommand ==
    (/\ Authorized
     /\ StartsWithSlash(text)
     /\ CommandOf(text) \notin RegisteredNames
     /\ pc \notin {"idle", "hc", "rejected"}) =>
        /\ pc = "fulfilled"
        /\ OnlySend(Msg("UnknownCommand", CommandOf(text)))

\* C6: an invocation whose adapter calls all return ends with at least one
\* chat message sent.
Claim6_NeverZeroReplies ==
    pc = "fulfilled" => Sends(calls) # {}

\* C7: the promise that handleCommand returns never rejects.
Claim7_NeverRejects ==
    pc # "rejected"

MutatingOps ==
    {"triggerDeployment", "triggerWorkflow", "promoteDeployment",
     "cancelDeployment", "cloneProject", "setEnvVar", "addDomain"}

\* the project and repository identifiers a mutating call acts on: the
\* arguments that name a project, and for a promotion or cancellation the
\* project the command named
Identifiers(c) ==
    IF c.op = "triggerWorkflow" THEN {c.a[2]}
    ELSE IF c.op = "cloneProject" THEN {c.a[1], c.a[2]}
    ELSE IF c.op \in {"promoteDeployment", "cancelDeployment"} THEN {args[1]}
    ELSE {c.a[1]}

\* C8: no mutating adapter call is issued with a project or repository
\* identifier that fails validateProjectName.
Claim8_ValidatedBeforeMutation ==
    \A k \in 1..Len(calls) :
        calls[k].op \in MutatingOps =>
            \A id \in Identifiers(calls[k]) : validateProjectName(id)

\* C9: extractProjectName maps https://<project>.vercel.app and
\* https://<project>-<hash>-<team>.vercel.app to <project>, maps
\* https://github.com/<owner>/<repo>[.git] to <repo>, and returns a token
\* that matches neither expression unchanged.
Claim9_ExtractsName ==
    ex.stage \in {"once", "twice"} =>
        /\ ex.kind \in {"vercel", "github"} => ex.out1 = ex.name
        /\ ex.kind = "plain" => ex.out1 = ex.input

\* C10: extractProjectName(extractProjectName(x)) = extractProjectName(x)
\* for every input x.
Claim10_Idempotent ==
    ex.stage = "twice" => ex.out2 = ex.out1

\* the function was applied twice to a URL that holds another URL, and the
\* first application changed it
Witness10_Idempotent ==
    /\ ex.stage = "twice"
    /\ ex.kind = "nested"
    /\ ex.out1 # ex.input
    /\ ex.out2 = ex.out1

\* C11: validateProjectName returns false for every string that holds an
\* uppercase letter, an underscore or a space, is longer than 100
\* characters, is empty or starts with a hyphen, and returns true for every
\* string of 1 to 100 lowercase letters, digits and hyphens that starts with
\* a letter or a digit.
Claim11_ProjectNamePattern ==
    ex.stage = "project" =>
        LET n == ex.input
            chars == {n[i] : i \in 1..Len(n)}
        IN  /\ (\/ chars \cap (Upper \cup {"_", " "}) # {}
                \/ Len(n) > 100
                \/ n = <<>>
                \/ n[1] = "-") => ~ex.ok
            /\ (/\ Len(n) \in 1..100
                /\ chars \subseteq Lower \cup Digit \cup {"-"}
                /\ n[1] \in Lower \cup Digit) => ex.ok

\* C12: validateComponentName returns true exactly for the strings of 1 to
\* 50 characters whose first character is an uppercase letter and whose
\* other characters are letters or digits; it accepts HeroSection and
\* rejects heroSection, "Hero Section", Hero-Section and the empty string.
Claim12_ComponentNamePattern ==
    ex.stage = "component" =>
        LET n == ex.input
        IN  /\ ex.ok = (/\ Len(n) \in 1..50
                        /\ \A i \in 1..Len(n) :
                              IF i = 1 THEN n[i] \in Upper
                              ELSE n[i] \in Lower \cup Upper \cup Digit)
            /\ n = W_HeroSection => ex.ok
            /\ n \in {W_heroSection, W_Hero_Section, W_Hero_dash_Section, <<>>} => ~ex.ok

\* a name of 50 characters was accepted
Witness12_ComponentNamePattern ==
    /\ ex.stage = "component"
    /\ Len(ex.input) = 50
    /\ ex.ok

\* the first whitespace-delimited token after the leading "/", and what
\* follows it
TokenOf(t) ==
    LET ws == {i \in 2..Len(t) : t[i] \in White}
    IN  SubSeq(t, 2, IF ws = {} THEN Len(t) ELSE Min(ws) - 1)
AfterToken(t) == SubSeq(t, Len(TokenOf(t)) + 2, Len(t))

\* the token up to its "@suffix"
TokenName(tok) ==
    LET at == {i \in 1..Len(tok) : tok[i] = "@"}
    IN  IF at = {} THEN tok ELSE SubSeq(tok, 1, Min(at) - 1)

SameLetters(a, b) ==
    /\ Len(a) = Len(b)
    /\ \A i \in 1..Len(a) :
          \/ a[i] = b[i]
          \/ \E k \in 1..26 : {a[i], b[i]} = {LowerSeq[k], UpperSeq[k]}

\* two commands that differ only in the letter case of the command token or
\* in its "@suffix"
SameCommand(t1, t2) ==
    /\ StartsWithSlash(t1) /\ StartsWithSlash(t2)
    /\ AfterToken(t1) = AfterToken(t2)
    /\ SameLetters(TokenName(TokenOf(t1)), TokenName(TokenOf(t2)))

\* C13: two texts from an authorized caller that differ only in the letter
\* case of the command token or in its "@suffix" select the same handler
\* and pass it the same ordered argument list: the handler and arguments of
\* this dispatch are those of every such other text.
Claim13_CaseInsensitiveParsing ==
    pc = "handler" =>
        \A t2 \in Texts :
            SameCommand(text, t2) =>
                /\ Lookup(CommandOf(t2)) = "handler"
                /\ CommandOf(t2) = command
                /\ ArgsOf(t2) = args

\* "/HELP app" was dispatched to the handler of help with the argument app
Witness13_CaseInsensitiveParsing ==
    /\ pc = "handler"
    /\ TokenOf(text) = W_HELP
    /\ command = N_help
    /\ args = <<W_app>>
    /\ \E t2 \in Texts : t2 # text /\ SameCommand(text, t2)

\* C14: for an authorized caller and every text that does not start with
\* "/", handleCommand sends exactly one message, the prompt to send a
\* command, and invokes no handler and no other adapter.
Claim14_PromptForCommand ==
    (/\ Started
     /\ AuthorizedUsers(env) # {} /\ userId \in AuthorizedUsers(env)
     /\ (text = <<>> \/ text[1] # "/")) =>
        /\ Terminal
        /\ OnlySend(Msg("SendACommand", <<>>))
        /\ command = <<>> /\ args = <<>>

\* " /help", a command after a leading space, got the prompt
Witness14_PromptForCommand ==
    /\ pc = "fulfilled"
    /\ text = <<" ", "/">> \o N_help
    /\ OnlySend(Msg("SendACommand", <<>>))

\* the number of arguments each command requires
RequiredArgs(name) ==
    IF name = N_env_set THEN 3
    ELSE IF name \in {N_new, N_component, N_clone, N_domain_add, N_chat, N_copy} THEN 2
    ELSE IF name \in {N_start, N_help, N_ping, N_repos, N_sites} THEN 0
    ELSE 1

\* C15: a registered command invoked with fewer arguments than it requires
\* sends exactly one usage message and calls no deployment, source-control
\* or generative adapter and no typing indicator; the one other call there
\* can be is the catch-all's reply when the send of the usage message threw.
Claim15_UsageOnMissingArguments ==
    (/\ Started /\ pc # "handler"
     /\ command \in RegisteredNames
     /\ Len(args) < RequiredArgs(command)) =>
        /\ Len(calls) >= 1
        /\ calls[1] = Call("sendMessage", chatId, Msg("Usage", command), <<>>)
        /\ \A k \in 1..Len(calls) : calls[k].op = "sendMessage"
        /\ Len(calls) > 1 => (Len(calls) = 2 /\ FailedReplies(calls) = {2})
        /\ pc = "fulfilled" /\ local.error = E_None => Len(calls) = 1

\* /env-set with two arguments got the usage message and nothing else
Witness15_UsageOnMissingArguments ==
    /\ pc = "fulfilled"
    /\ command = N_env_set
    /\ Len(args) = 2
    /\ OnlySend(Msg("Usage", N_env_set))

ProjectScoped == {N_status, N_logs, N_errors, N_domains, N_env, N_rollback, N_cancel}

\* the adapter calls that take the id of the project
UsesProjectId ==
    {"listDeployments", "getRuntimeLogs", "getProjectDomains",
     "getProjectEnvVars", "promoteDeployment"}

NotFoundReplies(cs) ==
    {k \in Sends(cs) : cs[k].text.t \in {"ProjectNotFound", "ProjectNotFoundUseSites"}}

\* C16: within a project-scoped command the project lookup completes before
\* any call that uses the project id; when the lookup reports not found the
\* command sends exactly one not-found reply (for /status the one that names
\* /sites), the only message when its send returns, and makes no
\* list-deployments call, no other call with a project id and no mutating
\* call.
Claim16_LookupFirst ==
    (Started /\ command \in ProjectScoped) =>
        /\ \A k \in 1..Len(calls) :
              calls[k].op \in UsesProjectId \cup MutatingOps =>
                  /\ \E j \in 1..(k - 1) :
                        calls[j].op = "getProject" /\ calls[j].a = <<args[1]>>
                  /\ local.project # NoProject
        /\ (/\ Terminal
            /\ local.project = NoProject
            /\ \E j \in 1..Len(calls) : calls[j].op = "getProject") =>
               /\ Cardinality(NotFoundReplies(calls)) = 1
               /\ \A k \in NotFoundReplies(calls) :
                     /\ calls[k].to = chatId
                     /\ calls[k].text =
                           Msg(IF command = N_status THEN "ProjectNotFoundUseSites"
                               ELSE "ProjectNotFound", args[1])
               /\ \A k \in 1..Len(calls) :
                     calls[k].op \in {"sendTyping", "getProject", "sendMessage"}
               /\ (pc = "fulfilled" /\ local.error = E_None) =>
                     Cardinality(Sends(calls)) = 1

\* /status app, for a project the platform does not know, got the reply
\* that names /sites after the typing indicator and the lookup
Witness16_LookupFirst ==
    /\ pc = "fulfilled"
    /\ command = N_status
    /\ Len(calls) = 3
    /\ calls[2].op = "getProject"
    /\ calls[3] = Call("sendMessage", chatId, Msg("ProjectNotFoundUseSites", W_app), <<>>)

\* C17: /deploy <name>, when triggerDeployment returns {id, url} and the
\* sends return, produces exactly two replies in this order: the progress
\* message, sent before triggerDeployment is called, then the success
\* message with the first 12 characters of the id and the url; nothing is
\* called after it.
Claim17_DeployReplies ==
    (/\ pc = "fulfilled"
     /\ command = N_deploy
     /\ local.target # NoDeployment
     /\ local.error = E_None) =>
        LET id == local.target.id
        IN  calls = <<Call("sendTyping", chatId, NoText, <<>>),
                      Call("sendMessage", chatId, Msg("Deploying", args[1]), <<>>),
                      Call("triggerDeployment", 0, NoText, <<args[1]>>),
                      Call("sendMessage", chatId,
                           Msg("DeployTriggered",
                               [i \in 1..12 |-> id[i]] \o <<" ">> \o local.target.url),
                           <<>>)>>

\* /deploy app was triggered and answered; the id is longer than 12
\* characters
Witness17_DeployReplies ==
    /\ pc = "fulfilled"
    /\ command = N_deploy
    /\ Len(calls) = 4
    /\ args = <<W_app>>
    /\ Len(local.target.id) > 12
    /\ calls[4].text.t = "DeployTriggered"

\* the request carries no text message the endpoint would hand on
NoTextMessage == http.body.json # "object" \/ ~IsTextMessage(http.body)

\* C18: the webhook answers every request with a success acknowledgement:
\* once the request is answered the response is 200 with ok: true, and stays
\* so when the invocation fails; a body that does not parse or carries no
\* text message is answered without handleCommand being invoked.
Claim18_AlwaysAcknowledged ==
    /\ http.stage \in {"received", "responded"}
    /\ http.stage = "responded" => http.response = JsonResponse(TRUE)
    /\ http.stage = "received" => http.response = <<>>
    /\ NoTextMessage => pc = "idle" /\ calls = <<>>
    /\ pc = "rejected" => http.response = JsonResponse(TRUE)

Witness18_AlwaysAcknowledged ==
    /\ http.stage = "responded"
    /\ pc = "rejected"
    /\ http.logged

\* C19: the response does not wait for the command: whenever the invocation
\* the request started is in progress or settled, the acknowledgement has
\* already been returned.
Claim19_ResponseDecoupled ==
    pc # "idle" => http.stage = "responded" /\ http.response = JsonResponse(TRUE)

Witness19_ResponseDecoupled ==
    /\ http.stage = "responded"
    /\ pc = "handler"
    /\ calls = <<>>

\* C20: with a secret configured, a request whose secret header is missing
\* or different is rejected before any processing: handleCommand is never
\* invoked for it.
Claim20_SecretChecked ==
    (http.secret # <<>> /\ http.header # http.secret) => pc = "idle"

\* C21: no adapter operation throws to its caller: the only error a handler
\* or the dispatcher ever catches is the one the dispatcher raises itself
\* for a registry entry that is no function.
Claim21_AdaptersNeverThrow == local.error \in {E_None, E_NotAFunction}

\* the positions after the latest of the listed deployments that are READY
EarlierReady(ds) == {k \in 2..Len(ds) : ds[k].state = "READY"}

Promotes(cs) == {k \in 1..Len(cs) : cs[k].op = "promoteDeployment"}

\* the deployments were listed: the call after listDeployments is not the
\* message of the catch block
ListingReturned(cs) ==
    \E k \in 1..(Len(cs) - 1) :
        cs[k].op = "listDeployments" /\ cs[k + 1].text.t # "Error"

\* C27: /rollback promotes, among the deployments listed (at most 5, newest
\* first), the first one after the latest whose state is READY, and that one
\* only: never the latest, never one that is not READY; the 'Rolling back'
\* message is the call just before the promote call.  When no deployment
\* after the latest is READY it promotes nothing and sends the 'no previous
\* successful deployment' reply, the only message when its send returns.
Claim27_RollbackTarget ==
    (Started /\ command = N_rollback) =>
        LET ds == local.deployments
        IN  /\ Len(ds) <= 5
            /\ Cardinality(Promotes(calls)) <= 1
            /\ \A k \in Promotes(calls) :
                  /\ EarlierReady(ds) # {}
                  /\ \E i \in EarlierReady(ds) :
                        /\ \A j \in EarlierReady(ds) : i <= j
                        /\ calls[k].a = <<ds[i].id, local.project.id>>
                  /\ calls[k].a[1] # ds[1].id
                  /\ k > 1
                  /\ calls[k - 1] =
                        Call("sendMessage", chatId, Msg("RollingBack", args[1]), <<>>)
            /\ (/\ Terminal
                /\ EarlierReady(ds) = {}
                /\ ListingReturned(calls)) =>
                   /\ Promotes(calls) = {}
                   /\ \E k \in Sends(calls) :
                         calls[k].text = Msg("NoPreviousDeployment", args[1])
                   /\ (pc = "fulfilled" /\ local.error = E_None) =>
                         Cardinality(Sends(calls)) = 1

\* /rollback app: the latest deployment and the second are not both the
\* target: the latest is READY, the second is BUILDING, the third is READY
\* and was promoted
Witness27_RollbackTarget ==
    /\ pc = "fulfilled"
    /\ command = N_rollback
    /\ Len(local.deployments) = 3
    /\ local.deployments[1].state = "READY"
    /\ local.deployments[2].state = "BUILDING"
    /\ Promotes(calls) # {}
    /\ \A k \in Promotes(calls) : calls[k].a[1] = D_id(3)
    /\ local.ok

SourceControlOps == {"repoExists", "listReposDetailed", "triggerWorkflow"}

OpsOf(cs) == {cs[k].op : k \in 1..Len(cs)}

\* C28: in every step of /genesis, the workflow is dispatched only when the
\* call before it is the repository check of args[0], that check returned
\* true, and args[0] passes validateProjectName; after a name that fails
\* validation no source-control call has been made, after a repository that
\* does not exist (the repositories were listed) the workflow has not been
\* dispatched, and in both cases the run that ends without a failed send
\* has sent exactly one message, the error reply.
Claim28_GenesisOrder ==
    [][(command' = N_genesis /\ pc' \notin {"idle", "hc", "handler"}) =>
          /\ (Len(calls') > Len(calls) /\ calls'[Len(calls')].op = "triggerWorkflow") =>
                /\ validateProjectName(args[1])
                /\ Len(calls) >= 1
                /\ calls[Len(calls)] = Call("repoExists", 0, NoText, <<args[1]>>)
                /\ local.ok
          /\ (Len(args') >= 1 /\ ~validateProjectName(args'[1])) =>
                /\ OpsOf(calls') \cap SourceControlOps = {}
                /\ (pc' = "fulfilled" /\ local'.error = E_None) =>
                      /\ Cardinality(Sends(calls')) = 1
                      /\ \E k \in Sends(calls') :
                            calls'[k].text = Msg("InvalidProjectName", args[1])
          /\ "listReposDetailed" \in OpsOf(calls') =>
                /\ "triggerWorkflow" \notin OpsOf(calls')
                /\ (pc' = "fulfilled" /\ local'.error = E_None) =>
                      /\ Cardinality(Sends(calls')) = 1
                      /\ \E k \in Sends(calls') :
                            calls'[k].text.t \in {"RepoNotFound", "RepoNotFoundSimilar"}]_vars

\* /genesis app: the repository exists and the workflow was dispatched
\* after the check
Witness28_GenesisOrder ==
    /\ pc = "fulfilled"
    /\ command = N_genesis
    /\ Len(calls) = 4
    /\ calls[2] = Call("repoExists", 0, NoText, <<W_app>>)
    /\ calls[3].op = "triggerWorkflow"
    /\ local.ok

L_scheme == <<":","/","/">>

\* C30: the handler of every command receives one argument for each
\* whitespace-separated token after the command, in the same order; an
\* argument that holds no URL is the token itself, and an argument that is
\* a platform or repository URL is the name the URL was built from, also
\* where the argument is no project reference (the value of /env-set, the
\* URL of /speed, the domain of /domain-add).
Claim30_EveryArgumentNormalized ==
    (Started /\ command \in ModelledNames) =>
        LET raw == Tail(Parts(text))
        IN  /\ Len(args) = Len(raw)
            /\ \A i \in 1..Len(raw) :
                  ~Includes(raw[i], L_scheme) => args[i] = raw[i]
            /\ \A c \in UrlCases :
                  text = <<"/">> \o c.token \o JoinArgs(c.raw) => args = c.names

\* /env-set app Hero https://app.vercel.app reached setEnvVar with the
\* value app
Witness30_EveryArgumentNormalized ==
    /\ command = N_env_set
    /\ pc = "fulfilled"
    /\ text = <<"/">> \o N_env_set \o JoinArgs(<<W_app, W_Hero, U_vercel>>)
    /\ \E k \in 1..Len(calls) :
          calls[k].op = "setEnvVar" /\ calls[k].a = <<W_app, W_Hero, W_app>>

\* C25: two runs of /env or of /env-set that differ only in values (the
\* values the platform stores, the value argument of /env-set) send the
\* same messages.
Claim25_ValuesNeverShown ==
    ex.stage = "second" => ex.out1 = ex.out2

\* two /env-set runs with different values were answered alike with the
\* success message
Witness25_SetAnswered ==
    /\ ex.stage = "second"
    /\ ex.command = N_env_set
    /\ ex.value1 # ex.value2
    /\ ex.out1 = <<[t |-> "EnvVarSet", project |-> W_app, key |-> ex.key]>>

NewDispatches(cs) ==
    {k \in 1..Len(cs) : cs[k].op = "triggerWorkflow" /\ cs[k].a[1] = <<"new-project.yml">>}

\* the characters of a business name, by name: letters with the accented
\* ones, digits, space, quotes, comma, period, hyphen
NameAlphabet ==
    Lower \cup Upper \cup Digit \cup
    {"á", "é", "í", "ó", "ú", "ñ", "Á", "É", "Í", "Ó", "Ú", "Ñ", "ü", "Ü"} \cup
    {" ", "\"", "'", ",", ".", "-"}

\* C29: /new dispatches new-project.yml at most once, with a business name
\* of 1 to 100 characters of the alphabet of names and with a sector that
\* is one of the eight valid sectors in lowercase; the name and the sector
\* are the ones parsed from the arguments, the sector compared without
\* regard to case.  When the parsed name or the parsed sector is not valid,
\* nothing is dispatched and the run that ends without a failed send has
\* sent exactly one message, the error reply.
Claim29_NewValidated ==
    (Started /\ command = N_new) =>
        /\ Cardinality(NewDispatches(calls)) <= 1
        /\ \A k \in NewDispatches(calls) :
              LET name == calls[k].a[2]
                  sector == calls[k].a[3]
              IN  /\ Len(name) \in 1..100
                  /\ \A i \in 1..Len(name) : name[i] \in NameAlphabet
                  /\ sector \in validSectors
                  /\ name = ParseNew(args).businessName
                  /\ sector = toLowerCase(ParseNew(args).sector)
        /\ (/\ Len(args) >= 2
            /\ pc \notin {"handler", "new_check"}
            /\ \/ ~validateBusinessName(ParseNew(args).businessName)
               \/ toLowerCase(ParseNew(args).sector) \notin validSectors) =>
               /\ NewDispatches(calls) = {}
               /\ (pc = "fulfilled" /\ local.error = E_None) =>
                     /\ Cardinality(Sends(calls)) = 1
                     /\ \E k \in Sends(calls) :
                           calls[k].text.t \in {"InvalidBusinessName", "InvalidSector"}

\* /new "Sofia Lounge" SPA dispatched the workflow for Sofia Lounge in the
\* sector spa
Witness29_NewValidated ==
    /\ pc = "fulfilled"
    /\ command = N_new
    /\ \E k \in NewDispatches(calls) :
          calls[k].a = <<<<"new-project.yml">>, W_Sofia \o <<" ">> \o W_Lounge, S_spa>>
    /\ args[3] = <<"S","P","A">>

\* what invocation `who` calls when it runs alone, every call returns, and
\* triggerDeployment returns c.local.target
CallsAlone(who, c) ==
    LET to == OwnChat(who)
    IN  IF c.userId \notin AuthorizedUsers(env)
        THEN <<Call("sendMessage", to, Msg("Unauthorized", <<>>), <<>>)>>
        ELSE IF c.text = T_hello
        THEN <<Call("sendMessage", to, Msg("SendACommand", <<>>), <<>>)>>
        ELSE IF c.text = T_ping
        THEN <<Call("sendMessage", to, Msg("Pong", <<>>), <<>>)>>
        ELSE <<Call("sendTyping", to, NoText, <<>>),
               Call("sendMessage", to, Msg("Deploying", W_app), <<>>),
               Call("triggerDeployment", 0, NoText, <<W_app>>),
               Call("sendMessage", to,
                    IF c.local.target = NoDeployment THEN Msg("DeployFailed", W_app)
                    ELSE Msg("DeployTriggered",
                             Slice(c.local.target.id, 0, 12) \o <<" ">> \o c.local.target.url),
                    <<>>)>>

\* every message of the invocation goes to its own conversation, what it
\* has called so far is the beginning of what it calls alone, and all of it
\* once it has ended
AsAlone(who, c) ==
    /\ \A k \in 1..Len(c.calls) :
          c.calls[k].op \in {"sendMessage", "sendTyping"} => c.calls[k].to = OwnChat(who)
    /\ c.local.error = E_None =>
          /\ Len(c.calls) <= Len(CallsAlone(who, c))
          /\ \A k \in 1..Len(c.calls) :
                k < 4 => c.calls[k] = CallsAlone(who, c)[k]
          /\ c.pc = "fulfilled" => c.calls = CallsAlone(who, c)

Claim22_NotConfiguredFailure ==
    (ex.stage \in {"returned", "replied", "error"} /\ ~ex.key) =>
        /\ ~ex.result.requested
        /\ ex.result.kind = "failure"
        /\ ex.stage # "replied"

\* C26: a reply of the provider from which no JSON object can be read (no
\* braces, or braces around text that does not parse) makes research,
\* pitch, competitor analysis and copy return their default, with success,
\* and the command answers with the result: never a failure or an error
\* reply.
Claim26_UnparseableReplyDefault ==
    (/\ ex.stage \in {"returned", "replied", "error"}
     /\ ex.key
     /\ ~ex.upstream.rejected
     /\ \/ JsonMatch(ex.upstream.text) = <<>>
        \/ ~Parses(JsonMatch(ex.upstream.text))) =>
        /\ ex.result.kind \in {"default", "mock"}
        /\ ex.result.success
        /\ ex.stage # "error"

-----------------------------------------------------------------------------
(* An upstream that never responds.  fetch is called without a signal or a
   timeout in sendMessage (telegram.ts 11-21), vercelFetch (vercel.ts 50-57)
   and githubFetch (route.ts 506-514): the promise of a request that gets no
   response never settles, and the await on it never resumes. *)

\* handleCommand or its handler stands before an await of sendMessage
AwaitsSend ==
    \/ pc = "hc_catch"
    \/ Running(N_ping)
    \/ /\ pc = "hc"
       /\ ~(Authorized /\ StartsWithSlash(text)
            /\ Lookup(CommandOf(text)) = "handler")

\* the message of that sendMessage: commands.ts 2898-2901, 1070-1078,
\* 2860-2871, 2873-2879, 2885-2893
PendingMessage ==
    IF pc = "hc_catch" THEN Msg("CommandFailed", local.error)
    ELSE IF pc = "handler" THEN Msg("Pong", <<>>)
    ELSE IF ~Authorized THEN DenialMessage(env, userId)
    ELSE IF ~StartsWithSlash(text) THEN Msg("SendACommand", <<>>)
    ELSE Msg("UnknownCommand", CommandOf(text))

\* telegram.ts 11-21: the token is set, the request is sent and no response
\* ever arrives; nothing bounds the wait, and the invocation stays at its
\* await
fetch_unanswered ==
    /\ AwaitsSend
    /\ env.TELEGRAM_BOT_TOKEN
    /\ calls' = Append(calls, Call("sendMessage", chatId, PendingMessage, <<>>))
    /\ pc' = "pending"
    /\ IF pc = "hc" /\ Authorized /\ StartsWithSlash(text)
       THEN /\ command' = CommandOf(text)
            /\ args' = ArgsOf(text)
       ELSE UNCHANGED <<command, args>>
    /\ UNCHANGED <<env, chatId, userId, text, local, ex, http>>

UnansweredNext ==
    \/ POST
    \/ POST_onRejected
    \/ hc_notConfigured
    \/ hc_unauthorized
    \/ hc_prompt
    \/ hc_unknown
    \/ hc_dispatch
    \/ hc_catch
    \/ ping
    \/ fetch_unanswered

\* the event loop runs every continuation that can run: the system does not
\* stop while a step is possible
SpecUnanswered ==
    WebhookInit /\ [][UnansweredNext]_vars /\ WF_vars(UnansweredNext)

\* Claim 23: every invocation of handleCommand eventually completes, even
\* when an upstream service never responds to a request.  (Completion alone
\* is stated; the claim asks for completion with a reply, which is stronger.)
Claim23_EventuallyCompletes == (pc = "hc") ~> Terminal

=============================================================================
